---- MODULE Spec2Model ----
(***************************************************************************)
(* Workflow execution engine of agentic_platform (workflow/engine.py) with *)
(* its in-memory audit log (audit/audit_log.py) and a recording tool       *)
(* client.  A run call is a little process: its position in run() is       *)
(* pc[r], its locals are the other functions over Runs.                    *)
(***************************************************************************)
EXTENDS Integers, Sequences, FiniteSets, TLC

NULL == "null"

\* ------------------------------------------------------------------ bounds
MaxOut == 2
NumRuns == 2
MaxResolveCalls == 2
MaxEmits == 3
MaxQueries == 2
MaxRequests == 4
MaxCalls == 2
MaxEntries == 2
MaxAdds == 3
MaxIterations == 2
MaxPuts == 3

Runs == 1..NumRuns

\* --------------------------------------------------------- Python values
\* A Python value is a tree: a function from key paths to labels.  The label
\* at <<>> tells the value's type; a dict has a subtree under each key.  The
\* text of a str is its sequence of characters.
Label(type, text) == [type |-> type, text |-> text]

PyNone == (<<>> :> Label("NoneType", <<>>))

PyStr(chars) == (<<>> :> Label("str", chars))

PyInt(digits) == (<<>> :> Label("int", digits))

\* items: a function from keys to values
PyDict(items) ==
  [p \in {<<>>} \cup UNION {{<<k>> \o q : q \in DOMAIN items[k]} : k \in DOMAIN items} |->
     IF p = <<>> THEN Label("dict", <<>>) ELSE items[Head(p)][Tail(p)]]

EmptyDict == PyDict([k \in {} |-> PyNone])

\* isinstance(v, dict), isinstance(v, str)
IsDict(v) == v[<<>>].type = "dict"

IsStr(v) == v[<<>>].type = "str"

DictKeys(v) == {p[1] : p \in {q \in DOMAIN v : Len(q) = 1}}

\* The value stored in the tree v under the key path p.
Subtree(v, p) ==
  [q \in {SubSeq(x, Len(p) + 1, Len(x)) :
            x \in {y \in DOMAIN v : Len(y) >= Len(p) /\ SubSeq(y, 1, Len(p)) = p}} |->
     v[p \o q]]

\* d.get(key) of a dict d
DictGet(d, key) == IF <<key>> \in DOMAIN d THEN Subtree(d, <<key>>) ELSE PyNone

\* not v: None and the empty dict are falsy.
Falsy(v) == v = PyNone \/ (IsDict(v) /\ DictKeys(v) = {})

\* ------------------------------------------------- workflow definitions
\* Python conditions: "eqA" is  input['lang'] == 'A',  "eqB" is
\* input['lang'] == 'B',  "bad" is  input.lang == 'A'  (a dict has no such
\* attribute);  NULL is an edge without a 'condition' key.
Conditions == {NULL, "eqA", "eqB", "bad"}

\* Input documents: {'lang': 'A'}, {'lang': 'B'} and {} (no 'lang' key).
Inputs == {"A", "B", "nolang"}

\* The documents behind the inputs.
Doc(input) ==
  IF input = "nolang" THEN EmptyDict
  ELSE PyDict([k \in {"lang"} |-> PyStr(<<input>>)])

\* A node without an 'args' key: n.get("args") is None.
NodeList ==
  << [id |-> "start", type |-> "start", tool |-> NULL,      args |-> PyNone],
     [id |-> "t1",    type |-> "tool",  tool |-> "tool_t1", args |-> PyNone],
     [id |-> "t2",    type |-> "tool",  tool |-> "tool_t2", args |-> PyNone],
     [id |-> "end",   type |-> "end",   tool |-> NULL,      args |-> PyNone] >>

NodeIds == {NodeList[i].id : i \in 1..Len(NodeList)}

ToolIds == {NodeList[i].id : i \in {j \in 1..Len(NodeList) : NodeList[j].type = "tool"}}

\* Definitions in which every node but the end node declares at most one
\* edge, guarded or not, to any node: chains, dead ends, cycles, self-loops.
PathConditions == {NULL, "eqA"}

OneEdge(n) == {<<>>} \cup {<<e>> : e \in [from : {n}, to : NodeIds, condition : PathConditions]}

PathDefs ==
  {[nodes |-> NodeList, edges |-> t[1] \o t[2] \o t[3]] :
      t \in OneEdge("start") \X OneEdge("t1") \X OneEdge("t2")}

\* Definitions that branch at the start node: it declares up to MaxOut edges,
\* guarded or not, and each tool node at most one unguarded edge, on to the
\* end node or back to the start node.
StartEdges == [from : {"start"}, to : NodeIds \ {"start"}, condition : Conditions]

StartLists == UNION {[1..k -> StartEdges] : k \in 0..MaxOut}

ToolLists(n) ==
  {<<>>} \cup {<<e>> : e \in [from : {n}, to : {"end", "start"}, condition : {NULL}]}

BranchDefs ==
  {[nodes |-> NodeList, edges |-> t[1] \o t[2] \o t[3]] :
      t \in StartLists \X ToolLists("t1") \X ToolLists("t2")}

\* Definitions as a caller can hand them to run(): no, one or two start
\* nodes, a tool node whose id may be declared a second time with another
\* tool, and edges that may name the undeclared node "ghost".
StartNodes ==
  { <<>>,
    << [id |-> "start", type |-> "start", tool |-> NULL, args |-> PyNone] >>,
    << [id |-> "start", type |-> "start", tool |-> NULL, args |-> PyNone],
       [id |-> "s2",    type |-> "start", tool |-> NULL, args |-> PyNone] >> }

ToolNodes ==
  { << [id |-> "t1", type |-> "tool", tool |-> "tool_t1", args |-> PyNone] >>,
    << [id |-> "t1", type |-> "tool", tool |-> "tool_t1", args |-> PyNone],
       [id |-> "t1", type |-> "tool", tool |-> "tool_dup", args |-> PyNone] >> }

EndNodes == { << [id |-> "end", type |-> "end", tool |-> NULL, args |-> PyNone] >> }

LooseTargets == {"t1", "end", "ghost"}

LooseEdge(n) == {<<>>} \cup {<<e>> : e \in [from : {n}, to : LooseTargets, condition : {NULL}]}

LooseDefs ==
  {[nodes |-> n[1] \o n[2] \o n[3], edges |-> t[1] \o t[2] \o t[3]] :
      n \in StartNodes \X ToolNodes \X EndNodes,
      t \in LooseEdge("start") \X LooseEdge("t1")
            \X {<<>>, <<[from |-> "ghost", to |-> "end", condition |-> NULL]>>}}

\* Checkpoints a caller can pass as resume_state.
Checkpoints ==
  [current_node_id : {"start", "t1", "ghost"}, visited : {{}, {<<"start">>}}]

\* Argument templates of a tool node: no 'args' key, args: {},
\* args: {x: "${lang}"} and args: {x: "lit"}.
NodeTemplates ==
  { PyNone,
    EmptyDict,
    PyDict([k \in {"x"} |-> PyStr(<<"$", "{", "l", "a", "n", "g", "}">>)]),
    PyDict([k \in {"x"} |-> PyStr(<<"l", "i", "t">>)]) }

\* The chain start -> t1 -> t2 -> end with every pair of templates.
ArgDefs ==
  {[nodes |-> << NodeList[1], [NodeList[2] EXCEPT !.args = a[1]],
                 [NodeList[3] EXCEPT !.args = a[2]], NodeList[4] >>,
    edges |-> << [from |-> "start", to |-> "t1", condition |-> NULL],
                 [from |-> "t1", to |-> "t2", condition |-> NULL],
                 [from |-> "t2", to |-> "end", condition |-> NULL] >>] :
      a \in NodeTemplates \X NodeTemplates}

\* Values of a template's keys: "${a.b}", "${a}", "${c.d}", "${z}", "${}",
\* "${a..b}", "${a.b" (no closing brace), "lit" and the number 7.
TemplateValues ==
  { PyStr(<<"$", "{", "a", ".", "b", "}">>),
    PyStr(<<"$", "{", "a", "}">>),
    PyStr(<<"$", "{", "c", ".", "d", "}">>),
    PyStr(<<"$", "{", "z", "}">>),
    PyStr(<<"$", "{", "}">>),
    PyStr(<<"$", "{", "a", ".", ".", "b", "}">>),
    PyStr(<<"$", "{", "a", ".", "b">>),
    PyStr(<<"l", "i", "t">>),
    PyInt(<<"7">>) }

\* Templates: None, {}, and dicts with the key x or the keys x and y.
Templates ==
  {PyNone, EmptyDict}
  \cup {PyDict([k \in {"x"} |-> v]) : v \in TemplateValues}
  \cup {PyDict([k \in {"x", "y"} |-> IF k = "x" THEN v[1] ELSE v[2]]) :
          v \in TemplateValues \X TemplateValues}

\* Input documents: {a: {b: "v"}, c: "w"}, {a: "v"}, {a: None, c: {d: "u"}}
\* and {}.
Documents ==
  { PyDict([k \in {"a", "c"} |->
              IF k = "a" THEN PyDict([j \in {"b"} |-> PyStr(<<"v">>)])
                         ELSE PyStr(<<"w">>)]),
    PyDict([k \in {"a"} |-> PyStr(<<"v">>)]),
    PyDict([k \in {"a", "c"} |->
              IF k = "a" THEN PyNone
                         ELSE PyDict([j \in {"d"} |-> PyStr(<<"u">>)])]),
    EmptyDict }

\* Definitions for runs that share one audit log: start -> t1 with or without
\* the guard "lang is A", and t1 on to the end node, back to the start node or
\* to itself.  On {lang: B} the guarded edge leaves a run without an edge to
\* follow.
SharedDefs ==
  {[nodes |-> NodeList,
    edges |-> << [from |-> "start", to |-> "t1", condition |-> c],
                 [from |-> "t1", to |-> n, condition |-> NULL] >>] :
      c \in PathConditions, n \in {"end", "start", "t1"}}

SharedInputs == {"A", "B"}

\* ------------------------------------------------------------ run state
VARIABLES wf_def, input_artifact, events, calls,
          pc, job_id, current, visited, next_node, stop_at_node,
          return_state, resume_state, tool_results, result, raised,
          next_edge, path, body, emitted, queries, resolver, evals

\* The adapters around the engine: the MCP server and what it has answered,
\* the MCP clients and what they have sent, the LangGraph agent with the
\* state that flows through its graph, and the agent's memory.
VARIABLES mcp_server, handled, mcp_client, sent,
          agent, graph_state, graph_node, execution, memory, added

\* The artifact store, and the calls it has served.
VARIABLES artifact_store, stored

adapters == <<mcp_server, handled, mcp_client, sent,
              agent, graph_state, graph_node, execution, memory, added,
              artifact_store, stored>>

engine == <<wf_def, input_artifact, events, calls,
            pc, job_id, current, visited, next_node, stop_at_node,
            return_state, resume_state, tool_results, result, raised,
            next_edge, path, body, emitted, queries, resolver, evals>>

vars == <<wf_def, input_artifact, events, calls,
          pc, job_id, current, visited, next_node, stop_at_node,
          return_state, resume_state, tool_results, result, raised,
          next_edge, path, body, emitted, queries, resolver, evals,
          mcp_server, handled, mcp_client, sent,
          agent, graph_state, graph_node, execution, memory, added,
          artifact_store, stored>>

\* path[r], body[r] and emitted[r] are history: the nodes current has been
\* bound to in call r, the nodes whose loop iteration got past the cycle
\* check, and the events call r has handed to the audit log.  queries is the
\* history of get_events calls; resolver is a call of resolve_args.  evals[r] is
\* the history of the guards call r has handed to eval: the node whose edges
\* were scanned, the edge's position among them, and its condition.

NoNode == [id |-> NULL, type |-> NULL, tool |-> NULL, args |-> PyNone]

NoState == [current_node_id |-> NULL, visited |-> {}]

NoResult == [status |-> NULL, state |-> NoState, pair |-> FALSE]

Terminal == {"returned", "raised"}

\* No workflow is being run.
NoWorkflow == [nodes |-> <<>>, edges |-> <<>>]

\* No call of resolve_args is being looked at.
NoResolver ==
  [pc |-> "idle", args |-> PyNone, input_artifact |-> PyNone,
   resolved |-> <<>>, todo |-> {}, out |-> <<>>]

\* ------------------------------------------------------- pure helpers
\* node_map = {n["id"]: n for n in wf_def["nodes"]}: the last node declared
\* with an id is the one the map holds.
node_map(nodes, id) ==
  nodes[CHOOSE i \in 1..Len(nodes) :
          /\ nodes[i].id = id
          /\ \A j \in 1..Len(nodes) : nodes[j].id = id => j <= i]

HasNode(nodes, id) == \E i \in 1..Len(nodes) : nodes[i].id = id

\* next(n for n in wf_def["nodes"] if n["type"] == "start")
FirstStart(nodes) ==
  nodes[CHOOSE i \in 1..Len(nodes) :
          /\ nodes[i].type = "start"
          /\ \A j \in 1..Len(nodes) : nodes[j].type = "start" => i <= j]

node_key(id) == <<id>>

\* eval(cond, {"__builtins__": {}}, {"input": input_artifact}): "true",
\* "false", or "raise" (AttributeError for "bad", KeyError when the document
\* has no 'lang').
Eval(cond, input) ==
  IF cond = "bad" \/ input = "nolang" THEN "raise"
  ELSE IF cond = "eqA" THEN (IF input = "A" THEN "true" ELSE "false")
  ELSE (IF input = "B" THEN "true" ELSE "false")

\* outgoing = [e for e in edges if e["from"] == current["id"]]
Outgoing(edges, id) == SelectSeq(edges, LAMBDA e : e.from = id)

\* Mutant: an unconditional edge is taken as soon as it is met.
EdgeVerdict_uncondwins(e, cand, input) ==
  IF e.condition = NULL THEN "select"
  ELSE IF Eval(e.condition, input) = "true" THEN "select" ELSE "skip"

\* Mutant: the guard's verdict is inverted.
EdgeVerdict_inverted(e, cand, input) ==
  IF e.condition = NULL
    THEN (IF cand = <<>> THEN "candidate" ELSE "skip")
    ELSE IF Eval(e.condition, input) = "false" THEN "select" ELSE "skip"

\* Mutant: every unconditional edge replaces the candidate.
EdgeVerdict_lastuncond(e, cand, input) ==
  IF e.condition = NULL THEN "candidate"
  ELSE IF Eval(e.condition, input) = "true" THEN "select" ELSE "skip"

\* One pass of the for-loop body over edge e (lines 69-80): "candidate" sets
\* next_edge and goes on, "select" sets it and breaks, "skip" leaves it.
EdgeVerdict(e, cand, input) ==
  IF e.condition = NULL
    THEN (IF cand = <<>> THEN "candidate" ELSE "skip")
    ELSE IF Eval(e.condition, input) = "true" THEN "select" ELSE "skip"

\* Mutant: a guard that raises ends the scan.
RECURSIVE ScanEdges_abort(_, _, _, _)
ScanEdges_abort(outgoing, i, cand, input) ==
  IF i > Len(outgoing) THEN cand
  ELSE LET e == outgoing[i]
           v == EdgeVerdict(e, cand, input)
       IN IF e.condition # NULL /\ Eval(e.condition, input) = "raise" THEN cand
          ELSE IF v = "select" THEN <<e>>
          ELSE ScanEdges_abort(outgoing, i + 1, IF v = "candidate" THEN <<e>> ELSE cand, input)

\* The for-loop over outgoing (lines 67-80); cand is the loop's next_edge,
\* <<>> for None or <<e>>.
RECURSIVE ScanEdges(_, _, _, _)
ScanEdges(outgoing, i, cand, input) ==
  IF i > Len(outgoing) THEN cand
  ELSE LET e == outgoing[i]
           v == EdgeVerdict(e, cand, input)
       IN IF v = "select" THEN <<e>>
          ELSE ScanEdges(outgoing, i + 1, IF v = "candidate" THEN <<e>> ELSE cand, input)

\* Mutant: when the scan selects nothing, the first outgoing edge is taken.
SelectEdge_fallback(outgoing, input) ==
  IF ScanEdges(outgoing, 1, <<>>, input) = <<>> /\ outgoing # <<>>
    THEN <<outgoing[1]>>
    ELSE ScanEdges(outgoing, 1, <<>>, input)

SelectEdge(outgoing, input) == ScanEdges(outgoing, 1, <<>>, input)

\* Mutant: the loop goes on to the guards after a true one.
RECURSIVE EvalCalls_all(_, _, _)
EvalCalls_all(outgoing, i, input) ==
  IF i > Len(outgoing) THEN <<>>
  ELSE IF outgoing[i].condition = NULL THEN EvalCalls_all(outgoing, i + 1, input)
  ELSE <<i>> \o EvalCalls_all(outgoing, i + 1, input)

\* The same for-loop (lines 68-80) seen from eval: the positions of the edges
\* whose condition it hands to eval, in order, from edge i on.  A condition
\* of None is not evaluated, and a true one ends the loop.
RECURSIVE EvalCalls(_, _, _)
EvalCalls(outgoing, i, input) ==
  IF i > Len(outgoing) THEN <<>>
  ELSE IF outgoing[i].condition = NULL THEN EvalCalls(outgoing, i + 1, input)
  ELSE IF Eval(outgoing[i].condition, input) = "true" THEN <<i>>
  ELSE <<i>> \o EvalCalls(outgoing, i + 1, input)

\* What the scan of a node's outgoing edges adds to the history of evals.
Evaluated(id, outgoing, input) ==
  [k \in 1..Len(EvalCalls(outgoing, 1, input)) |->
     [from |-> id, index |-> EvalCalls(outgoing, 1, input)[k],
      condition |-> outgoing[EvalCalls(outgoing, 1, input)[k]].condition]]

\* Mutant: the checkpoint node's key is left in the resumed visited set.
ResumeVisited_keepkey(state) == state.visited

\* Mutant: the resumed call starts with an empty visited set.
ResumeVisited_forget(state) == {}

\* lines 34-38: visited = set(resume_state["visited"]) without the key of the
\* checkpoint's node.
ResumeVisited(state) == state.visited \ {node_key(state.current_node_id)}

\* Mutant: the cycle check is dropped.
AlreadyVisited_never(node, vis) == FALSE

\* lines 53-54: node_key in visited
AlreadyVisited(node, vis) == node_key(node.id) \in vis

\* Mutant: the node is not recorded as visited.
MarkVisited_skip(node, vis) == vis

\* line 56: visited.add(node_key)
MarkVisited(node, vis) == vis \cup {node_key(node.id)}

\* line 57
IsStopNode(node, stop) == stop # NULL /\ node.id = stop

\* AuditEvent(event_type, job_id, node_id, ...) of core/types.py; timestamp and
\* status are constants of the emit site and follow from event_type.
AuditEvent(type, job, node) == [event_type |-> type, job_id |-> job, node_id |-> node]

\* Mutant: an event equal to one already stored is not stored again.
emit_dedup(log, type, job, node) ==
  IF \E i \in DOMAIN log :
        log[i] = [event_type |-> type, job_id |-> job, node_id |-> node]
    THEN log
    ELSE Append(log, [event_type |-> type, job_id |-> job, node_id |-> node])

\* Mutant: an append racing with another job's append takes the same slot and
\* overwrites it.
emit_clobber(log, type, job, node) ==
  IF log # <<>> /\ log[Len(log)].job_id # job
    THEN [log EXCEPT ![Len(log)] = [event_type |-> type, job_id |-> job, node_id |-> node]]
    ELSE Append(log, [event_type |-> type, job_id |-> job, node_id |-> node])

\* Mutant: the event is inserted at the front of the list.
emit_front(log, type, job, node) ==
  <<[event_type |-> type, job_id |-> job, node_id |-> node]>> \o log

\* audit_log.emit(AuditEvent(...)) : self._events.append(event)
emit(log, type, job, node) ==
  Append(log, [event_type |-> type, job_id |-> job, node_id |-> node])

\* Mutant: the query returns the whole log.
get_events_all(log, job) == log

\* Mutant: the query returns the job's events, latest first.
RECURSIVE get_events_latest_first(_, _)
get_events_latest_first(log, job) ==
  IF log = <<>> THEN <<>>
  ELSE get_events_latest_first(Tail(log), job)
       \o (IF Head(log).job_id = job THEN <<Head(log)>> ELSE <<>>)

\* InMemoryAuditLog.get_events: [e for e in self._events if e.job_id == job_id]
get_events(log, job) == SelectSeq(log, LAMBDA e : e.job_id = job)

\* generate_job_id(): a fresh identifier per call of run().
generate_job_id(r) == r

\* ---------------------------------------------------------- resolve_args
\* value.startswith("${") and value.endswith("}")
StartsWithOpen(chars) == Len(chars) >= 2 /\ chars[1] = "$" /\ chars[2] = "{"

EndsWithClose(chars) == Len(chars) >= 1 /\ chars[Len(chars)] = "}"

\* line 10
IsTemplate(value) ==
  IsStr(value) /\ StartsWithOpen(value[<<>>].text) /\ EndsWithClose(value[<<>>].text)

\* value[2:-1]
Slice2(chars) == SubSeq(chars, 3, Len(chars) - 1)

\* path.split("."): the parts between the dots, empty parts included.
RECURSIVE SplitFrom(_, _, _)
SplitFrom(chars, i, part) ==
  IF i > Len(chars) THEN <<part>>
  ELSE IF chars[i] = "." THEN <<part>> \o SplitFrom(chars, i + 1, "")
  ELSE SplitFrom(chars, i + 1, part \o chars[i])

Split(chars) == SplitFrom(chars, 1, "")

\* Mutant: the walk does not stop at a value that is not a dict; it keeps it.
RECURSIVE Walk_keep(_, _, _)
Walk_keep(parts, i, cur) ==
  IF i > Len(parts) THEN cur
  ELSE IF IsDict(cur)
         THEN IF DictGet(cur, parts[i]) = PyNone THEN PyNone
              ELSE Walk_keep(parts, i + 1, DictGet(cur, parts[i]))
         ELSE cur

\* lines 15-22: the for-loop over parts from position i with current = cur.
RECURSIVE Walk(_, _, _)
Walk(parts, i, cur) ==
  IF i > Len(parts) THEN cur
  ELSE IF IsDict(cur)
         THEN IF DictGet(cur, parts[i]) = PyNone THEN PyNone
              ELSE Walk(parts, i + 1, DictGet(cur, parts[i]))
         ELSE PyNone

\* lines 10-25: the value stored under one key of resolved.
ResolveValue(value, doc) ==
  IF IsTemplate(value) THEN Walk(Split(Slice2(value[<<>>].text)), 1, doc)
  ELSE value

\* Mutant: without a template the tool gets an empty dict.
resolve_args_nopass(args, doc) ==
  IF Falsy(args) THEN EmptyDict
  ELSE PyDict([key \in DictKeys(args) |-> ResolveValue(DictGet(args, key), doc)])

\* resolve_args(args, input_artifact), lines 4-26
resolve_args(args, doc) ==
  IF Falsy(args) THEN doc
  ELSE PyDict([key \in DictKeys(args) |-> ResolveValue(DictGet(args, key), doc)])

\* ============================================================= adapters
\* ----------------------------------------------------------- MCP server
\* adapters/mcp_server.py.  A request is a Python value.  A response is a
\* record whose fields are the keys of the response dict; the literals of
\* the code are strings, the texts that come from a request are sequences
\* of characters.
PROTOCOL_VERSION == <<"2", "0", "2", "5", "-", "0", "6", "-", "1", "8">>

INVALID_REQUEST == -32600

METHOD_NOT_FOUND == -32601

INVALID_PARAMS == -32602

INTERNAL_ERROR == -32603

\* How a Python call ends: it returns a value or raises an exception, and it
\* leaves the object it was called on as self.
Return(self, value) == [kind |-> "return", value |-> value, self |-> self]

Raise(self, type, message) ==
  [kind |-> "raise", value |-> [type |-> type, message |-> message], self |-> self]

\* not v, for the values a request carries: None, '' and {} are falsy.
Not(v) == Falsy(v) \/ (IsStr(v) /\ v[<<>>].text = <<>>)

\* d.get(key, {})
DictGetOrEmpty(d, key) == IF <<key>> \in DOMAIN d THEN Subtree(d, <<key>>) ELSE EmptyDict

NoData == [k \in {} |-> PyNone]

\* MCPError(code, message, data).to_dict(): "data" is there when data is
\* not empty.
MCPError(code, message, data) ==
  IF data = NoData
    THEN [code |-> code, message |-> message]
    ELSE [code |-> code, message |-> message, data |-> data]

\* MCPResponse(request_id).success(result)
success(request_id, res) ==
  IF request_id # PyNone
    THEN [jsonrpc |-> "2.0", result |-> res, id |-> request_id]
    ELSE [jsonrpc |-> "2.0", result |-> res]

\* MCPResponse(request_id).error(error)
error(request_id, err) ==
  IF request_id # PyNone
    THEN [jsonrpc |-> "2.0", error |-> err, id |-> request_id]
    ELSE [jsonrpc |-> "2.0", error |-> err]

_error_response(request_id, err) == error(request_id, err)

\* MCPCapabilities(tools, resources, prompts).to_dict() with resources and
\* prompts None.
MCPCapabilities(tools) == [tools |-> tools]

\* ---- the tool registry behind the server (tools/tool_registry.py)
\* handler tells what the tool's handler does with valid arguments:
\* "str", "int", "None", "content" and "object" return a value of that kind
\* ("content" a dict with a content key, "object" a value json cannot
\* dump), "ValueError" and "RuntimeError" raise.
ToolSpec(name, schema, handler, description) ==
  [name |-> name, schema |-> schema, handler |-> handler, description |-> description]

HasTool(registry, name) == \E i \in 1..Len(registry) : registry[i].name = name

\* self._tools[name] = ToolSpec(...): a dict keeps the position of a key it
\* already has.
register_tool(registry, spec) ==
  IF HasTool(registry, spec.name)
    THEN [i \in 1..Len(registry) |->
            IF registry[i].name = spec.name THEN spec ELSE registry[i]]
    ELSE Append(registry, spec)

list_tools(registry) == [i \in 1..Len(registry) |-> registry[i].name]

\* self._tools.get(name), for a name the registry has
get_tool(registry, name) ==
  registry[CHOOSE i \in 1..Len(registry) : registry[i].name = name]

HandlerResult(handler) ==
  CASE handler = "str" -> PyStr(<<"o", "k">>)
    [] handler = "int" -> PyInt(<<"4", "2">>)
    [] handler = "None" -> PyNone
    [] handler = "content" ->
         PyDict([k \in {"content"} |-> PyStr(<<"o", "k">>)])
    [] OTHER -> (<<>> :> Label("object", <<>>))

\* ToolRegistry.call(name, args)
call(registry, name, args) ==
  IF ~HasTool(registry, name) THEN Raise(registry, "Exception", "Tool not found")
  ELSE IF ~IsDict(args)
    THEN Raise(registry, "AttributeError", "object has no attribute 'keys'")
  ELSE IF ~(get_tool(registry, name).schema.required \subseteq DictKeys(args))
    THEN Raise(registry, "ValidationError", "is a required property")
  ELSE IF get_tool(registry, name).handler \in {"ValueError", "RuntimeError"}
    THEN Raise(registry, get_tool(registry, name).handler, "handler failed")
  ELSE Return(registry, HandlerResult(get_tool(registry, name).handler))

Name_echo == <<"e", "c", "h", "o">>

Name_boom == <<"b", "o", "o", "m">>

Name_picky == <<"p", "i", "c", "k", "y">>

Name_blob == <<"b", "l", "o", "b">>

NoSchema == [required |-> {}]

\* The registry the server is built on: its tools in registration order, one
\* of them registered twice.
ToolRegistry ==
  register_tool(
    register_tool(
      register_tool(
        register_tool(
          register_tool(<<>>,
            ToolSpec(Name_echo, NoSchema, "str", <<>>)),
          ToolSpec(Name_boom, NoSchema, "RuntimeError", <<>>)),
        ToolSpec(Name_picky, [required |-> {"query"}], "ValueError", <<"P">>)),
      ToolSpec(Name_blob, NoSchema, "object", <<"B">>)),
    ToolSpec(Name_echo, NoSchema, "str", <<"E">>))

\* ---- MCPServer
MCPServer(tool_registry, version) ==
  [tool_registry |-> tool_registry, version |-> version,
   _initialized |-> FALSE, _client_info |-> PyNone]

\* MCPTool(name, description, inputSchema).to_dict()
MCPTool(name, description, inputSchema) ==
  [name |-> name, description |-> description, inputSchema |-> inputSchema]

_convert_tool_to_mcp(self, tool_name) ==
  IF ~HasTool(self.tool_registry, tool_name)
    THEN Raise(self, "ValueError", "Tool not found in registry")
    ELSE LET tool_spec == get_tool(self.tool_registry, tool_name)
         IN Return(self,
              MCPTool(tool_spec.name,
                      IF tool_spec.description # <<>>
                        THEN tool_spec.description
                        ELSE <<"T", "o", "o", "l", ":", " ">> \o tool_name,
                      tool_spec.schema))

_handle_initialize(self, request_id, params) ==
  IF ~IsDict(params)
    THEN Raise(self, "AttributeError", "object has no attribute 'get'")
    ELSE
      LET client_protocol_version == DictGet(params, "protocolVersion")
          client_info == DictGetOrEmpty(params, "clientInfo")
      IN IF client_protocol_version # PyStr(PROTOCOL_VERSION)
           THEN Return(self,
                  _error_response(request_id,
                    MCPError(INVALID_PARAMS, "Protocol version mismatch",
                             [client_version |-> client_protocol_version])))
           ELSE Return([self EXCEPT !._client_info = client_info,
                                    !._initialized = TRUE],
                  success(request_id,
                    [protocolVersion |-> PROTOCOL_VERSION,
                     capabilities |-> MCPCapabilities([listChanged |-> TRUE]),
                     serverInfo |-> [name |-> "agentic-platform-mcp-server",
                                     version |-> self.version]]))

\* The tools of the names, those left out whose conversion raises.
RECURSIVE ConvertAll(_, _)
ConvertAll(self, tool_names) ==
  IF tool_names = <<>> THEN <<>>
  ELSE LET tool == _convert_tool_to_mcp(self, Head(tool_names))
       IN (IF tool.kind = "raise" THEN <<>> ELSE <<tool.value>>)
            \o ConvertAll(self, Tail(tool_names))

\* Mutant: tools/list does not look at _initialized.
_handle_tools_list_nocheck(self, request_id) ==
  Return(self,
    success(request_id,
      [tools |-> ConvertAll(self, list_tools(self.tool_registry))]))

_handle_tools_list(self, request_id) ==
  IF ~self._initialized
    THEN Return(self,
           _error_response(request_id,
             MCPError(INVALID_REQUEST, "Must call initialize before tools/list",
                      NoData)))
    ELSE Return(self,
           success(request_id,
             [tools |-> ConvertAll(self, list_tools(self.tool_registry))]))

\* json.dumps(result) of what a handler has returned that is no str and no
\* dict
json_dumps(v) ==
  CASE v[<<>>].type = "int" -> Return(v, PyStr(v[<<>>].text))
    [] v[<<>>].type = "NoneType" -> Return(v, PyStr(<<"n", "u", "l", "l">>))
    [] OTHER -> Raise(v, "TypeError", "is not JSON serializable")

_handle_tools_call(self, request_id, params) ==
  IF ~IsDict(params)
    THEN Raise(self, "AttributeError", "object has no attribute 'get'")
    ELSE
      LET tool_name == DictGet(params, "name")
          arguments == DictGetOrEmpty(params, "arguments")
          called == call(self.tool_registry, tool_name[<<>>].text, arguments)
          res == called.value
          dumped == json_dumps(res)
          failed(e) ==
            IF e.type = "ValueError"
              THEN Return(self,
                     _error_response(request_id,
                       MCPError(INVALID_PARAMS, "Invalid arguments",
                                [tool |-> tool_name])))
              ELSE Return(self,
                     _error_response(request_id,
                       MCPError(INTERNAL_ERROR, "Tool execution failed",
                                [tool |-> tool_name, details |-> e.message])))
      IN IF Not(tool_name)
           THEN Return(self,
                  _error_response(request_id,
                    MCPError(INVALID_PARAMS, "Tool 'name' parameter is required",
                             NoData)))
         ELSE IF called.kind = "raise" THEN failed(called.value)
         ELSE IF IsDict(res) /\ <<"content">> \in DOMAIN res
           THEN Return(self,
                  success(request_id, [content |-> Subtree(res, <<"content">>)]))
         ELSE IF IsStr(res)
           THEN Return(self,
                  success(request_id,
                    [content |-> <<[type |-> "text", text |-> res]>>]))
         ELSE IF dumped.kind = "raise" THEN failed(dumped.value)
         ELSE Return(self,
                success(request_id,
                  [content |-> <<[type |-> "text", text |-> dumped.value]>>]))

Method_initialize == <<"i", "n", "i", "t", "i", "a", "l", "i", "z", "e">>

Method_tools_list == <<"t", "o", "o", "l", "s", "/", "l", "i", "s", "t">>

Method_tools_call == <<"t", "o", "o", "l", "s", "/", "c", "a", "l", "l">>

Version_2_0 == <<"2", ".", "0">>

\* Mutant: every method but initialize is refused before initialization.
Route_gated(self, request_id, method, params) ==
  IF method = PyStr(Method_initialize)
    THEN _handle_initialize(self, request_id, params)
  ELSE IF ~self._initialized
    THEN Return(self,
           _error_response(request_id,
             MCPError(INVALID_REQUEST, "Must call initialize first", NoData)))
  ELSE IF method = PyStr(Method_tools_list)
    THEN _handle_tools_list(self, request_id)
  ELSE IF method = PyStr(Method_tools_call)
    THEN _handle_tools_call(self, request_id, params)
  ELSE Return(self,
         _error_response(request_id,
           MCPError(METHOD_NOT_FOUND, "Method not found", NoData)))

\* The handler the method of a request is routed to.
Route(self, request_id, method, params) ==
  IF method = PyStr(Method_initialize)
    THEN _handle_initialize(self, request_id, params)
  ELSE IF method = PyStr(Method_tools_list)
    THEN _handle_tools_list(self, request_id)
  ELSE IF method = PyStr(Method_tools_call)
    THEN _handle_tools_call(self, request_id, params)
  ELSE Return(self,
         _error_response(request_id,
           MCPError(METHOD_NOT_FOUND, "Method not found", NoData)))

\* Mutant: the handlers are called outside any try.
handle_request_nocatch(self, request) ==
  IF ~IsDict(request)
    THEN Return(self,
           _error_response(PyNone,
             MCPError(INVALID_REQUEST, "Request must be a JSON object", NoData)))
    ELSE
      LET request_id == DictGet(request, "id")
          jsonrpc == DictGet(request, "jsonrpc")
          method == DictGet(request, "method")
          params == DictGetOrEmpty(request, "params")
      IN IF jsonrpc # PyStr(Version_2_0)
           THEN Return(self,
                  _error_response(request_id,
                    MCPError(INVALID_REQUEST, "jsonrpc field must be '2.0'", NoData)))
         ELSE IF Not(method)
           THEN Return(self,
                  _error_response(request_id,
                    MCPError(INVALID_REQUEST, "method field is required", NoData)))
         ELSE Route(self, request_id, method, params)

handle_request(self, request) ==
  IF ~IsDict(request)
    THEN Return(self,
           _error_response(PyNone,
             MCPError(INVALID_REQUEST, "Request must be a JSON object", NoData)))
    ELSE
      LET request_id == DictGet(request, "id")
          jsonrpc == DictGet(request, "jsonrpc")
          method == DictGet(request, "method")
          params == DictGetOrEmpty(request, "params")
          routed == Route(self, request_id, method, params)
      IN IF jsonrpc # PyStr(Version_2_0)
           THEN Return(self,
                  _error_response(request_id,
                    MCPError(INVALID_REQUEST, "jsonrpc field must be '2.0'", NoData)))
         ELSE IF Not(method)
           THEN Return(self,
                  _error_response(request_id,
                    MCPError(INVALID_REQUEST, "method field is required", NoData)))
         ELSE IF routed.kind = "raise"
           THEN Return(routed.self,
                  _error_response(request_id,
                    MCPError(INTERNAL_ERROR, routed.value.message,
                             [details |-> routed.value.message])))
         ELSE routed

\* ---- the requests a caller sends
\* A dict of the items whose value is not Absent.
Absent == (<<>> :> Label("absent", <<>>))

Items(jsonrpc, id, method, params) ==
  [k \in {x \in {"jsonrpc", "id", "method", "params"} :
            (CASE x = "jsonrpc" -> jsonrpc [] x = "id" -> id
               [] x = "method" -> method [] OTHER -> params) # Absent} |->
     CASE k = "jsonrpc" -> jsonrpc [] k = "id" -> id
       [] k = "method" -> method [] OTHER -> params]

Request(jsonrpc, id, method, params) == PyDict(Items(jsonrpc, id, method, params))

Id_1 == PyInt(<<"1">>)

InitializeParams(version) ==
  PyDict([k \in {"protocolVersion", "clientInfo"} |->
            IF k = "protocolVersion" THEN PyStr(version)
            ELSE PyDict([n \in {"name"} |-> PyStr(<<"t">>)])])

CallParams(name) == PyDict([k \in {"name"} |-> PyStr(name)])

InitializeRequest ==
  Request(PyStr(Version_2_0), Id_1, PyStr(Method_initialize),
          InitializeParams(PROTOCOL_VERSION))

MismatchRequest ==
  Request(PyStr(Version_2_0), Id_1, PyStr(Method_initialize),
          InitializeParams(<<"2", "0", "2", "4", "-", "0", "1", "-", "0", "1">>))

ToolsListRequest == Request(PyStr(Version_2_0), Id_1, PyStr(Method_tools_list), Absent)

ToolsCallRequest(name) ==
  Request(PyStr(Version_2_0), Id_1, PyStr(Method_tools_call), CallParams(name))

Requests ==
  { PyStr(<<"x">>),
    Request(PyStr(<<"1", ".", "0">>), Id_1, PyStr(Method_initialize),
            InitializeParams(PROTOCOL_VERSION)),
    Request(PyStr(Version_2_0), Id_1, Absent, Absent),
    Request(PyStr(Version_2_0), Absent, PyStr(<<"p", "i", "n", "g">>), Absent),
    InitializeRequest,
    MismatchRequest,
    Request(PyStr(Version_2_0), Id_1, PyStr(Method_initialize), PyNone),
    ToolsListRequest,
    ToolsCallRequest(Name_echo),
    ToolsCallRequest(Name_boom),
    Request(PyStr(Version_2_0), Id_1, PyStr(Method_tools_call),
            PyDict([k \in {"name", "arguments"} |->
                      IF k = "name" THEN PyStr(Name_picky)
                      ELSE PyDict([a \in {"query"} |-> PyStr(<<"q">>)])])) }

NoServer == MCPServer(<<>>, "")

ServerIdle == mcp_server = NoServer /\ handled = <<>>

\* ----------------------------------------------------------- MCP client
\* adapters/mcp_adapter.py.  A client is in list_tools or call_tool (op),
\* waiting in _send_request for the answer to its initialize request
\* (pc = "initialize") or to the tool request (pc = "request"), or it is in
\* no call.  call counts the calls made on it; result tells how the last
\* one ended.
Clients == {1, 2}

MCPClient ==
  [_initialized |-> FALSE, pc |-> "idle", call |-> 0, op |-> NULL, result |-> NULL]

\* Mutant: initialize() leaves the flag as it was.
initialize_forgetful(self) == self

\* initialize(), once _send_request has returned
initialize(self) == [self EXCEPT !._initialized = TRUE]

\* A request of a client's call, as _send_request posts it.
Posted(self, method) ==
  [call |-> self.call, op |-> self.op, method |-> method, outcome |-> "pending"]

\* The answer to the last request posted: outcome is "result" or "error"
\* for a response of that kind, "raised" when _send_request raises.
Answered(requests, outcome) ==
  [requests EXCEPT ![Len(requests)].outcome = outcome]

ClientIdle ==
  /\ mcp_client = [c \in Clients |-> MCPClient]
  /\ sent = [c \in Clients |-> <<>>]

\* -------------------------------------------------------- artifact store
\* agents/artifact_store.py.  self._store is a dict: here the sequence of
\* its items in insertion order, each the job id with its (ref, artifact).
InMemoryArtifactStore == <<>>

HasJob(self, job) == \E i \in 1..Len(self) : self[i].job_id = job

JsonKind(type) ==
  CASE type = "dict" -> "object"
    [] type = "str" -> "string"
    [] type = "int" -> "number"
    [] OTHER -> "null"

\* json.dumps(artifact, sort_keys=True): the JSON text, as the tree of its
\* members by key; a value that is no dict, str, int or None has no JSON.
json_dumps_sorted(artifact) ==
  IF \E p \in DOMAIN artifact : artifact[p].type \notin {"dict", "str", "int", "NoneType"}
    THEN Raise(artifact, "TypeError", "is not JSON serializable")
    ELSE Return(artifact,
                [p \in DOMAIN artifact |->
                   [kind |-> JsonKind(artifact[p].type), text |-> artifact[p].text]])

\* hashlib.sha256(text).hexdigest(): one digest per text
sha256_hexdigest(text) == [sha256 |-> text]

\* f"artifact:{job_id}:{artifact_hash}"
FormatRef(job, artifact_hash) == <<"artifact", job, artifact_hash>>

\* Mutant: a second put for a job replaces what the job had.
put_overwrite(self, job, artifact) ==
  LET dumped == json_dumps_sorted(artifact)
      ref == FormatRef(job, sha256_hexdigest(dumped.value))
      item == [job_id |-> job, ref |-> ref, artifact |-> artifact]
  IN IF dumped.kind = "raise"
       THEN Raise(self, dumped.value.type, dumped.value.message)
     ELSE IF HasJob(self, job)
       THEN Return([i \in 1..Len(self) |->
                      IF self[i].job_id = job THEN item ELSE self[i]], ref)
     ELSE Return(Append(self, item), ref)

put(self, job, artifact) ==
  LET dumped == json_dumps_sorted(artifact)
      ref == FormatRef(job, sha256_hexdigest(dumped.value))
  IN IF HasJob(self, job)
       THEN Raise(self, "ValueError", "Artifact for job already exists")
     ELSE IF dumped.kind = "raise"
       THEN Raise(self, dumped.value.type, dumped.value.message)
     ELSE Return(Append(self, [job_id |-> job, ref |-> ref, artifact |-> artifact]),
                 ref)

get(self, ref) ==
  LET found == {i \in 1..Len(self) : self[i].ref = ref}
  IN IF found = {}
       THEN Raise(self, "KeyError", "Artifact ref not found")
       ELSE Return(self, self[CHOOSE i \in found : \A j \in found : i <= j].artifact)

\* The job ids and artifacts a caller hands in: two artifacts that differ,
\* and one that holds a value json cannot write.
StoreJobs == {"job-123", "job-456"}

Artifacts ==
  { PyDict([k \in {"foo"} |-> PyStr(<<"b", "a", "r">>)]),
    PyDict([k \in {"foo"} |-> PyStr(<<"b", "a", "z">>)]),
    PyDict([k \in {"foo"} |-> (<<>> :> Label("object", <<>>))]) }

\* The refs a caller can ask for: those put can have returned, and one that
\* was never returned.
Refs ==
  {FormatRef(j, sha256_hexdigest(json_dumps_sorted(a).value)) :
     j \in StoreJobs, a \in {x \in Artifacts : json_dumps_sorted(x).kind = "return"}}
    \cup {FormatRef("job-000", sha256_hexdigest(PyNone))}

StoreIdle == artifact_store = InMemoryArtifactStore /\ stored = <<>>

\* --------------------------------------------------------- agent memory
\* adapters/langgraph_memory.py.  A text is its sequence of words; the
\* timestamp of an entry is the reading of the clock when it was added.
DEFAULT_MAX_ENTRIES == 100

MemoryEntry(role, content, timestamp, metadata) ==
  [role |-> role, content |-> content, timestamp |-> timestamp, metadata |-> metadata]

InMemoryMemory(max_entries) == [entries |-> <<>>, max_entries |-> max_entries]

\* MemoryManager.add
MemoryManager_add(self, role, content, metadata, now) ==
  [self EXCEPT !.entries = Append(@, MemoryEntry(role, content, now, metadata))]

\* Mutant: over the limit, the entry just added is the one removed.
add_evict_newest(self, role, content, metadata, now) ==
  IF Len(self.entries) + 1 > self.max_entries
    THEN self
    ELSE MemoryManager_add(self, role, content, metadata, now)

\* InMemoryMemory.add
add(self, role, content, metadata, now) ==
  LET added_to == MemoryManager_add(self, role, content, metadata, now)
  IN IF Len(added_to.entries) > self.max_entries
       THEN [added_to EXCEPT !.entries = Tail(@)]
       ELSE added_to

add_human(self, content, now) == add(self, "user", content, {}, now)

add_assistant(self, content, now) == add(self, "assistant", content, {}, now)

add_tool_result(self, tool_name, res, now) ==
  add(self, "tool", <<tool_name \o ":", res>>, {<<"tool", tool_name>>}, now)

MemoryIdle == memory = InMemoryMemory(DEFAULT_MAX_ENTRIES) /\ added = <<>>

\* ------------------------------------------------------- LangGraph agent
\* adapters/langgraph_agent.py and langgraph_state.py.  A message is its
\* kind, its content and, for a tool message, its tool_call_id.
END == "__end__"

Message(type, content, tool_call_id) ==
  [type |-> type, content |-> content, tool_call_id |-> tool_call_id]

SystemMessage(content) == Message("system", content, NULL)

HumanMessage(content) == Message("human", content, NULL)

AIMessage(content) == Message("ai", content, NULL)

ToolMessage(content, tool_call_id) == Message("tool", content, tool_call_id)

\* The words that \w+ matches whole.
Words == {"The", "answer", "is", "4", "test_tool", "boom", "ghost", "with",
          "arg", "value", "Planner", "Test"}

\* What the LLM answers: no tool, a tool, a tool with an argument, a tool
\* that raises under a persona, a tool the agent does not have.  The texts
\* have no quotes and no JSON block.
Text_answer == <<"The", "answer", "is", "4">>

Text_tool == <<"use_tool:", "test_tool">>

Text_tool_with == <<"I'll", "use_tool:", "test_tool", "with", "arg", "=", "value">>

Text_persona == <<"[", "Planner", "]:", "use_tool:", "boom">>

Text_ghost == <<"use_tool:", "ghost">>

Texts == {Text_answer, Text_tool, Text_tool_with, Text_persona, Text_ghost}

\* llm.invoke(messages): a response with a text, None, or an exception.
LLM ==
  {[kind |-> "text", text |-> t] : t \in Texts}
    \cup {[kind |-> "none", text |-> <<>>], [kind |-> "raise", text |-> <<>>]}

\* The tools of the agent: what func does when called.
Tools == <<[name |-> "test_tool", func |-> "returns"], [name |-> "boom", func |-> "raises"]>>

LangGraphAgent(tools, max_iterations) ==
  [max_iterations |-> max_iterations, tools |-> tools, iteration_count |-> 0,
   reasoning_steps |-> <<>>, tool_calls |-> <<>>]

\* The keys of the state the agent reads or writes; it leaves the others as
\* create_initial_state has set them.
create_initial_state(max_iterations) ==
  [messages |-> <<>>, tool_results |-> <<>>, current_tool |-> NULL,
   tool_input |-> NULL, iteration_count |-> 0, max_iterations |-> max_iterations,
   error |-> NULL, error_count |-> 0]

AgentExecutionResult(status, final_output, reasoning_steps, tool_calls, iterations, err) ==
  [status |-> status, final_output |-> final_output,
   reasoning_steps |-> reasoning_steps, tool_calls |-> tool_calls,
   iterations |-> iterations, error |-> err]

add_reasoning_step(self, step) ==
  [self EXCEPT !.reasoning_steps =
     Append(@, [step |-> Len(self.reasoning_steps), text |-> step])]

\* re.search(r"^\s*\[([a-zA-Z\s]+)\]:", text)
_extract_persona(text) ==
  IF Len(text) >= 3 /\ text[1] = "[" /\ text[2] \in Words /\ text[3] = "]:"
    THEN text[2] ELSE NULL

\* args_str.split("="), kept when it has two parts
ParseArgs(args_str) ==
  LET eqs == {j \in 1..Len(args_str) : args_str[j] = "="}
  IN IF Cardinality(eqs) = 1
       THEN LET j == CHOOSE x \in eqs : TRUE
            IN << <<SubSeq(args_str, 1, j - 1), SubSeq(args_str, j + 1, Len(args_str))>> >>
       ELSE <<>>

\* Pattern 1, use_tool: name with args
_extract_tool_use(response_text) ==
  LET hits == {i \in 1..(Len(response_text) - 1) :
                 response_text[i] = "use_tool:" /\ response_text[i + 1] \in Words}
      first == CHOOSE i \in hits : \A j \in hits : i <= j
      args_str ==
        IF first + 3 <= Len(response_text) /\ response_text[first + 2] = "with"
          THEN SubSeq(response_text, first + 3, Len(response_text))
          ELSE <<>>
  IN IF hits = {}
       THEN [tool_name |-> NULL, tool_args |-> NULL]
       ELSE [tool_name |-> response_text[first + 1], tool_args |-> ParseArgs(args_str)]

_execute_tool(self, tool_name, tool_args) ==
  LET found == {i \in 1..Len(self.tools) : self.tools[i].name = tool_name}
      tool == self.tools[CHOOSE i \in found : \A j \in found : i <= j]
  IN IF found = {} THEN Raise(self, "ValueError", "Tool not found")
     ELSE IF tool.func = "raises" THEN Raise(self, "RuntimeError", "tool failed")
     ELSE Return(self, "ok")

router(state) ==
  IF state.iteration_count >= state.max_iterations THEN END
  ELSE IF state.current_tool # NULL THEN "tool_node"
  ELSE END

NoAgent == LangGraphAgent(<<>>, 0)

AgentIdle ==
  /\ agent = NoAgent
  /\ graph_state = create_initial_state(0)
  /\ graph_node = NULL
  /\ execution = AgentExecutionResult(NULL, NULL, <<>>, <<>>, 0, NULL)

AdaptersIdle == ServerIdle /\ ClientIdle /\ AgentIdle /\ MemoryIdle /\ StoreIdle

\* ------------------------------------------------------------------ Init
\* No call of run() has begun.
InitRuns(defs, inputs) ==
  /\ wf_def \in defs
  /\ input_artifact \in inputs
  /\ events = <<>>
  /\ calls = <<>>
  /\ evals = [r \in Runs |-> <<>>]
  /\ pc = [r \in Runs |-> "init"]
  /\ job_id = [r \in Runs |-> 0]
  /\ current = [r \in Runs |-> NoNode]
  /\ visited = [r \in Runs |-> {}]
  /\ next_node = [r \in Runs |-> NoNode]
  /\ stop_at_node = [r \in Runs |-> NULL]
  /\ return_state = [r \in Runs |-> FALSE]
  /\ resume_state = [r \in Runs |-> NoState]
  /\ tool_results = [r \in Runs |-> <<>>]
  /\ result = [r \in Runs |-> NoResult]
  /\ raised = [r \in Runs |-> NULL]
  /\ next_edge = [r \in Runs |-> <<>>]
  /\ path = [r \in Runs |-> <<>>]
  /\ body = [r \in Runs |-> <<>>]
  /\ emitted = [r \in Runs |-> <<>>]

InitWith(defs) ==
  /\ InitRuns(defs, Inputs)
  /\ queries = <<>>
  /\ resolver = NoResolver
  /\ AdaptersIdle

\* --------------------------------------------------------------- actions
\* Mutant: visited is one set that all the calls of run() share.
BeginFresh_sharedvisited(r, stop, ret) ==
  /\ pc[r] = "init"
  /\ \E i \in 1..Len(wf_def.nodes) : wf_def.nodes[i].type = "start"
  /\ job_id' = [job_id EXCEPT ![r] = generate_job_id(r)]
  /\ stop_at_node' = [stop_at_node EXCEPT ![r] = stop]
  /\ return_state' = [return_state EXCEPT ![r] = ret]
  /\ resume_state' = [resume_state EXCEPT ![r] = NoState]
  /\ tool_results' = [tool_results EXCEPT ![r] = <<>>]
  /\ current' = [current EXCEPT ![r] = FirstStart(wf_def.nodes)]
  /\ visited' = [visited EXCEPT ![r] = UNION {visited[q] : q \in Runs}]
  /\ events' = emit(events, "STEP_STARTED", job_id'[r], FirstStart(wf_def.nodes).id)
  /\ emitted' = [emitted EXCEPT ![r] =
                   Append(@, AuditEvent("STEP_STARTED", job_id'[r], FirstStart(wf_def.nodes).id))]
  /\ path' = [path EXCEPT ![r] = <<FirstStart(wf_def.nodes).id>>]
  /\ pc' = [pc EXCEPT ![r] = "loop"]
  /\ UNCHANGED <<adapters, evals, queries, resolver, wf_def, input_artifact, calls, next_node,
                 result, raised, next_edge, body>>

\* run(), lines 29-51, fresh call: the first start node becomes current and
\* its STEP_STARTED is emitted.
BeginFresh(r, stop, ret) ==
  /\ pc[r] = "init"
  /\ job_id' = [job_id EXCEPT ![r] = generate_job_id(r)]
  /\ stop_at_node' = [stop_at_node EXCEPT ![r] = stop]
  /\ return_state' = [return_state EXCEPT ![r] = ret]
  /\ resume_state' = [resume_state EXCEPT ![r] = NoState]
  /\ tool_results' = [tool_results EXCEPT ![r] = <<>>]
  /\ IF \E i \in 1..Len(wf_def.nodes) : wf_def.nodes[i].type = "start"
       THEN /\ current' = [current EXCEPT ![r] = FirstStart(wf_def.nodes)]
            /\ visited' = [visited EXCEPT ![r] = {}]
            /\ events' = emit(events, "STEP_STARTED", job_id'[r], FirstStart(wf_def.nodes).id)
            /\ emitted' = [emitted EXCEPT ![r] = Append(@, AuditEvent("STEP_STARTED", job_id'[r], FirstStart(wf_def.nodes).id))]
            /\ path' = [path EXCEPT ![r] = <<FirstStart(wf_def.nodes).id>>]
            /\ pc' = [pc EXCEPT ![r] = "loop"]
            /\ UNCHANGED raised
       ELSE /\ raised' = [raised EXCEPT ![r] = "StopIteration"]
            /\ pc' = [pc EXCEPT ![r] = "raised"]
            /\ UNCHANGED <<current, visited, events, emitted, path>>
  /\ UNCHANGED <<adapters, evals, queries, resolver, wf_def, input_artifact, calls, next_node, result, next_edge, body>>

\* Mutant: a checkpoint naming an unknown node restarts from the start node.
BeginResume_restart(r, state, stop, ret) ==
  /\ pc[r] = "init"
  /\ state # NoState
  /\ job_id' = [job_id EXCEPT ![r] = generate_job_id(r)]
  /\ stop_at_node' = [stop_at_node EXCEPT ![r] = stop]
  /\ return_state' = [return_state EXCEPT ![r] = ret]
  /\ resume_state' = [resume_state EXCEPT ![r] = state]
  /\ tool_results' = [tool_results EXCEPT ![r] = <<>>]
  /\ current' = [current EXCEPT ![r] =
                    IF HasNode(wf_def.nodes, state.current_node_id)
                      THEN node_map(wf_def.nodes, state.current_node_id)
                      ELSE wf_def.nodes[1]]
  /\ visited' = [visited EXCEPT ![r] = ResumeVisited(state)]
  /\ path' = [path EXCEPT ![r] = <<current'[r].id>>]
  /\ pc' = [pc EXCEPT ![r] = "loop"]
  /\ events' = IF HasNode(wf_def.nodes, state.current_node_id) THEN events
               ELSE emit(events, "STEP_STARTED", job_id'[r], current'[r].id)
  /\ UNCHANGED <<adapters, evals, queries, resolver, wf_def, input_artifact, emitted, calls, next_node,
                 result, raised, next_edge, body>>

\* Mutant: the resumed call invokes the tool of the checkpoint node again.
BeginResume_reinvoke(r, state, stop, ret) ==
  /\ pc[r] = "init"
  /\ state # NoState
  /\ job_id' = [job_id EXCEPT ![r] = generate_job_id(r)]
  /\ stop_at_node' = [stop_at_node EXCEPT ![r] = stop]
  /\ return_state' = [return_state EXCEPT ![r] = ret]
  /\ resume_state' = [resume_state EXCEPT ![r] = state]
  /\ tool_results' = [tool_results EXCEPT ![r] = <<>>]
  /\ IF HasNode(wf_def.nodes, state.current_node_id)
       THEN /\ current' = [current EXCEPT ![r] =
                              node_map(wf_def.nodes, state.current_node_id)]
            /\ visited' = [visited EXCEPT ![r] = ResumeVisited(state)]
            /\ path' = [path EXCEPT ![r] = <<state.current_node_id>>]
            /\ next_node' = [next_node EXCEPT ![r] =
                                node_map(wf_def.nodes, state.current_node_id)]
            /\ pc' = [pc EXCEPT ![r] =
                        IF next_node'[r].type = "tool" THEN "tool_start" ELSE "loop"]
            /\ UNCHANGED raised
       ELSE /\ raised' = [raised EXCEPT ![r] = "KeyError"]
            /\ pc' = [pc EXCEPT ![r] = "raised"]
            /\ UNCHANGED <<current, visited, path, next_node>>
  /\ UNCHANGED <<adapters, evals, queries, resolver, wf_def, input_artifact, events, emitted, calls, result,
                 next_edge, body>>

\* run(), lines 29-38 and 49-51, resumed call: current is the checkpoint's
\* node, visited the checkpoint's set without that node's key; no event.
BeginResume(r, state, stop, ret) ==
  /\ pc[r] = "init"
  /\ state # NoState
  /\ job_id' = [job_id EXCEPT ![r] = generate_job_id(r)]
  /\ stop_at_node' = [stop_at_node EXCEPT ![r] = stop]
  /\ return_state' = [return_state EXCEPT ![r] = ret]
  /\ resume_state' = [resume_state EXCEPT ![r] = state]
  /\ tool_results' = [tool_results EXCEPT ![r] = <<>>]
  /\ IF HasNode(wf_def.nodes, state.current_node_id)
       THEN /\ current' = [current EXCEPT ![r] =
                              node_map(wf_def.nodes, state.current_node_id)]
            /\ visited' = [visited EXCEPT ![r] = ResumeVisited(state)]
            /\ path' = [path EXCEPT ![r] = <<state.current_node_id>>]
            /\ pc' = [pc EXCEPT ![r] = "loop"]
            /\ UNCHANGED raised
       ELSE /\ raised' = [raised EXCEPT ![r] = "KeyError"]
            /\ pc' = [pc EXCEPT ![r] = "raised"]
            /\ UNCHANGED <<current, visited, path>>
  /\ UNCHANGED <<adapters, evals, queries, resolver, wf_def, input_artifact, events, emitted, calls, next_node, result,
                 next_edge, body>>

\* while current["type"] != "end" is false: lines 113-123.
Finish(r) ==
  /\ pc[r] = "loop"
  /\ current[r].type = "end"
  /\ events' = emit(events, "STEP_ENDED", job_id[r], current[r].id)
  /\ emitted' = [emitted EXCEPT ![r] = Append(@, AuditEvent("STEP_ENDED", job_id[r], current[r].id))]
  /\ result' = [result EXCEPT ![r] =
                  [status |-> "completed", state |-> NoState,
                   pair |-> (return_state[r] \/ resume_state[r] # NoState)]]
  /\ pc' = [pc EXCEPT ![r] = "returned"]
  /\ UNCHANGED <<adapters, evals, queries, resolver, wf_def, input_artifact, calls, job_id, current, visited,
                 next_node, stop_at_node, return_state, resume_state,
                 tool_results, raised, next_edge, path, body>>

\* lines 52-55: the current node's key is already in visited.
CycleDetected(r) ==
  /\ pc[r] = "loop"
  /\ current[r].type # "end"
  /\ AlreadyVisited(current[r], visited[r])
  /\ raised' = [raised EXCEPT ![r] = "CycleDetected"]
  /\ pc' = [pc EXCEPT ![r] = "raised"]
  /\ UNCHANGED <<adapters, evals, queries, resolver, wf_def, input_artifact, events, emitted, calls, job_id, current, visited,
                 next_node, stop_at_node, return_state, resume_state,
                 tool_results, result, next_edge, path, body>>

\* Mutant: the checkpoint carries visited as it was before the stop node was
\* added.
Pause_stale(r) ==
  /\ pc[r] = "loop"
  /\ current[r].type # "end"
  /\ ~AlreadyVisited(current[r], visited[r])
  /\ IsStopNode(current[r], stop_at_node[r])
  /\ body' = [body EXCEPT ![r] = Append(@, current[r].id)]
  /\ visited' = [visited EXCEPT ![r] = MarkVisited(current[r], @)]
  /\ result' = [result EXCEPT ![r] =
                  [status |-> "paused",
                   state |-> IF return_state[r]
                               THEN [current_node_id |-> current[r].id,
                                     visited |-> visited[r]]
                               ELSE NoState,
                   pair |-> return_state[r]]]
  /\ pc' = [pc EXCEPT ![r] = "returned"]
  /\ UNCHANGED <<adapters, evals, queries, resolver, wf_def, input_artifact, events, emitted, calls, job_id, current,
                 next_node, stop_at_node, return_state, resume_state,
                 tool_results, raised, next_edge, path>>

\* lines 52-63: the node is marked visited and it is the stop node.
Pause(r) ==
  /\ pc[r] = "loop"
  /\ current[r].type # "end"
  /\ ~AlreadyVisited(current[r], visited[r])
  /\ IsStopNode(current[r], stop_at_node[r])
  /\ body' = [body EXCEPT ![r] = Append(@, current[r].id)]
  /\ visited' = [visited EXCEPT ![r] = MarkVisited(current[r], @)]
  /\ result' = [result EXCEPT ![r] =
                  [status |-> "paused",
                   state |-> IF return_state[r]
                               THEN [current_node_id |-> current[r].id,
                                     visited |-> visited'[r]]
                               ELSE NoState,
                   pair |-> return_state[r]]]
  /\ pc' = [pc EXCEPT ![r] = "returned"]
  /\ UNCHANGED <<adapters, evals, queries, resolver, wf_def, input_artifact, events, emitted, calls, job_id, current,
                 next_node, stop_at_node, return_state, resume_state,
                 tool_results, raised, next_edge, path>>

\* lines 52-57: the node is marked visited and traversal goes on.
Visit(r) ==
  /\ pc[r] = "loop"
  /\ current[r].type # "end"
  /\ ~AlreadyVisited(current[r], visited[r])
  /\ ~IsStopNode(current[r], stop_at_node[r])
  /\ body' = [body EXCEPT ![r] = Append(@, current[r].id)]
  /\ visited' = [visited EXCEPT ![r] = MarkVisited(current[r], @)]
  /\ pc' = [pc EXCEPT ![r] = "select"]
  /\ UNCHANGED <<adapters, evals, queries, resolver, wf_def, input_artifact, events, emitted, calls, job_id, current,
                 next_node, stop_at_node, return_state, resume_state,
                 tool_results, result, raised, next_edge, path>>

\* Mutant: the stop node is entered without its tool being called.
Select_stopearly(r) ==
  /\ pc[r] = "select"
  /\ LET sel == SelectEdge(Outgoing(wf_def.edges, current[r].id), input_artifact)
     IN /\ sel # <<>>
        /\ evals' = [evals EXCEPT ![r] =
                       @ \o Evaluated(current[r].id,
                                      Outgoing(wf_def.edges, current[r].id),
                                      input_artifact)]
        /\ next_edge' = [next_edge EXCEPT ![r] = sel]
        /\ IF HasNode(wf_def.nodes, sel[1].to)
             THEN /\ next_node' = [next_node EXCEPT ![r] =
                                     node_map(wf_def.nodes, sel[1].to)]
                  /\ pc' = [pc EXCEPT ![r] =
                              IF next_node'[r].type = "tool"
                                   /\ next_node'[r].id # stop_at_node[r]
                                THEN "tool_start" ELSE "advance"]
                  /\ UNCHANGED raised
             ELSE /\ raised' = [raised EXCEPT ![r] = "KeyError"]
                  /\ pc' = [pc EXCEPT ![r] = "raised"]
                  /\ UNCHANGED next_node
  /\ UNCHANGED <<adapters, queries, resolver, wf_def, input_artifact, events, emitted, calls, job_id, current, visited,
                 stop_at_node, return_state, resume_state, tool_results,
                 result, path, body>>

\* lines 65-84: an edge is selected and its target looked up.
Select(r) ==
  /\ pc[r] = "select"
  /\ LET sel == SelectEdge(Outgoing(wf_def.edges, current[r].id), input_artifact)
     IN /\ sel # <<>>
        /\ evals' = [evals EXCEPT ![r] =
                       @ \o Evaluated(current[r].id,
                                      Outgoing(wf_def.edges, current[r].id),
                                      input_artifact)]
        /\ next_edge' = [next_edge EXCEPT ![r] = sel]
        /\ IF HasNode(wf_def.nodes, sel[1].to)
             THEN /\ next_node' = [next_node EXCEPT ![r] =
                                     node_map(wf_def.nodes, sel[1].to)]
                  /\ pc' = [pc EXCEPT ![r] =
                              IF next_node'[r].type = "tool" THEN "tool_start"
                                                             ELSE "advance"]
                  /\ UNCHANGED raised
             ELSE /\ raised' = [raised EXCEPT ![r] = "KeyError"]
                  /\ pc' = [pc EXCEPT ![r] = "raised"]
                  /\ UNCHANGED next_node
  /\ UNCHANGED <<adapters, queries, resolver, wf_def, input_artifact, events, emitted, calls, job_id, current, visited,
                 stop_at_node, return_state, resume_state, tool_results,
                 result, path, body>>

\* lines 65-82: no edge is selected.
NoValidEdge(r) ==
  /\ pc[r] = "select"
  /\ SelectEdge(Outgoing(wf_def.edges, current[r].id), input_artifact) = <<>>
  /\ evals' = [evals EXCEPT ![r] =
                 @ \o Evaluated(current[r].id,
                                Outgoing(wf_def.edges, current[r].id),
                                input_artifact)]
  /\ next_edge' = [next_edge EXCEPT ![r] = <<>>]
  /\ raised' = [raised EXCEPT ![r] = "NoValidEdge"]
  /\ pc' = [pc EXCEPT ![r] = "raised"]
  /\ UNCHANGED <<adapters, queries, resolver, wf_def, input_artifact, events, emitted, calls, job_id, current, visited,
                 next_node, stop_at_node, return_state, resume_state,
                 tool_results, result, path, body>>

\* lines 85-91
EmitStarted(r) ==
  /\ pc[r] = "tool_start"
  /\ events' = emit(events, "STEP_STARTED", job_id[r], next_node[r].id)
  /\ emitted' = [emitted EXCEPT ![r] = Append(@, AuditEvent("STEP_STARTED", job_id[r], next_node[r].id))]
  /\ pc' = [pc EXCEPT ![r] = "tool_call"]
  /\ UNCHANGED <<adapters, evals, queries, resolver, wf_def, input_artifact, calls, job_id, current, visited,
                 next_node, stop_at_node, return_state, resume_state,
                 tool_results, result, raised, next_edge, path, body>>

\* Mutant: the result replaces the list instead of being appended to it.
CallReturns_replace(r) ==
  /\ pc[r] = "tool_call"
  /\ calls' = Append(calls, [job_id |-> job_id[r], node_id |-> next_node[r].id,
                             tool |-> next_node[r].tool,
                             args |-> resolve_args(next_node[r].args,
                                                   Doc(input_artifact)),
                             caller |-> r, ok |-> TRUE])
  /\ tool_results' = [tool_results EXCEPT ![r] =
                        <<[node_id |-> next_node[r].id,
                           result |-> next_node[r].tool]>>]
  /\ pc' = [pc EXCEPT ![r] = "tool_ended"]
  /\ UNCHANGED <<adapters, evals, queries, resolver, wf_def, input_artifact, events, emitted,
                 job_id, current, visited, next_node, stop_at_node, return_state,
                 resume_state, result, raised, next_edge, path, body>>

\* lines 93-95: tool_client.call returns; the result is appended.  In calls
\* the tool client records each call with the call of run() that made it and
\* whether it returned (ok) or raised; a tool returns its own name.
CallReturns(r) ==
  /\ pc[r] = "tool_call"
  /\ calls' = Append(calls, [job_id |-> job_id[r], node_id |-> next_node[r].id,
                             tool |-> next_node[r].tool,
                             args |-> resolve_args(next_node[r].args,
                                                   Doc(input_artifact)),
                             caller |-> r, ok |-> TRUE])
  /\ tool_results' = [tool_results EXCEPT ![r] =
                        Append(@, [node_id |-> next_node[r].id,
                                   result |-> next_node[r].tool])]
  /\ pc' = [pc EXCEPT ![r] = "tool_ended"]
  /\ UNCHANGED <<adapters, evals, queries, resolver, wf_def, input_artifact, events, emitted, job_id, current, visited,
                 next_node, stop_at_node, return_state, resume_state,
                 result, raised, next_edge, path, body>>

\* Mutant: the except clause is missing; the error leaves without an event.
CallRaises_unlogged(r) ==
  /\ pc[r] = "tool_call"
  /\ calls' = Append(calls, [job_id |-> job_id[r], node_id |-> next_node[r].id,
                             tool |-> next_node[r].tool,
                             args |-> resolve_args(next_node[r].args,
                                                   Doc(input_artifact)),
                             caller |-> r, ok |-> FALSE])
  /\ raised' = [raised EXCEPT ![r] = "ToolError"]
  /\ pc' = [pc EXCEPT ![r] = "raised"]
  /\ UNCHANGED <<adapters, evals, queries, resolver, wf_def, input_artifact, events, emitted, job_id, current, visited,
                 next_node, stop_at_node, return_state, resume_state,
                 tool_results, result, next_edge, path, body>>

\* lines 93-94 and 103: tool_client.call raises.
CallRaises(r) ==
  /\ pc[r] = "tool_call"
  /\ calls' = Append(calls, [job_id |-> job_id[r], node_id |-> next_node[r].id,
                             tool |-> next_node[r].tool,
                             args |-> resolve_args(next_node[r].args,
                                                   Doc(input_artifact)),
                             caller |-> r, ok |-> FALSE])
  /\ pc' = [pc EXCEPT ![r] = "tool_errored"]
  /\ UNCHANGED <<adapters, evals, queries, resolver, wf_def, input_artifact, events, emitted, job_id, current, visited,
                 next_node, stop_at_node, return_state, resume_state,
                 tool_results, result, raised, next_edge, path, body>>

\* lines 96-102
EmitEnded(r) ==
  /\ pc[r] = "tool_ended"
  /\ events' = emit(events, "STEP_ENDED", job_id[r], next_node[r].id)
  /\ emitted' = [emitted EXCEPT ![r] = Append(@, AuditEvent("STEP_ENDED", job_id[r], next_node[r].id))]
  /\ pc' = [pc EXCEPT ![r] = "advance"]
  /\ UNCHANGED <<adapters, evals, queries, resolver, wf_def, input_artifact, calls, job_id, current, visited,
                 next_node, stop_at_node, return_state, resume_state,
                 tool_results, result, raised, next_edge, path, body>>

\* Mutant: STEP_ERRORED is emitted and the exception swallowed.
EmitErrored_swallow(r) ==
  /\ pc[r] = "tool_errored"
  /\ events' = emit(events, "STEP_ERRORED", job_id[r], next_node[r].id)
  /\ emitted' = [emitted EXCEPT ![r] = Append(@, AuditEvent("STEP_ERRORED", job_id[r], next_node[r].id))]
  /\ raised' = [raised EXCEPT ![r] = "ToolError"]
  /\ pc' = [pc EXCEPT ![r] = "advance"]
  /\ UNCHANGED <<adapters, evals, queries, resolver, wf_def, input_artifact, calls, job_id, current,
                 visited, next_node, stop_at_node, return_state, resume_state,
                 tool_results, result, next_edge, path, body>>

\* lines 103-111: STEP_ERRORED is emitted and the exception re-raised.
EmitErrored(r) ==
  /\ pc[r] = "tool_errored"
  /\ events' = emit(events, "STEP_ERRORED", job_id[r], next_node[r].id)
  /\ emitted' = [emitted EXCEPT ![r] = Append(@, AuditEvent("STEP_ERRORED", job_id[r], next_node[r].id))]
  /\ raised' = [raised EXCEPT ![r] = "ToolError"]
  /\ pc' = [pc EXCEPT ![r] = "raised"]
  /\ UNCHANGED <<adapters, evals, queries, resolver, wf_def, input_artifact, calls, job_id, current, visited,
                 next_node, stop_at_node, return_state, resume_state,
                 tool_results, result, next_edge, path, body>>

\* line 112
Advance(r) ==
  /\ pc[r] = "advance"
  /\ current' = [current EXCEPT ![r] = next_node[r]]
  /\ path' = [path EXCEPT ![r] = Append(@, next_node[r].id)]
  /\ pc' = [pc EXCEPT ![r] = "loop"]
  /\ UNCHANGED <<adapters, evals, queries, resolver, wf_def, input_artifact, events, emitted, calls, job_id, visited,
                 next_node, stop_at_node, return_state, resume_state,
                 tool_results, result, raised, next_edge, body>>

\* ----------------------------------------------- resolve_args, step by step
\* resolver.args and resolver.input_artifact are the caller's two objects,
\* resolver.resolved and resolver.todo the call's locals (the dict being built
\* and the keys args.items() has yet to yield), resolver.out the values the
\* calls made so far have returned.

\* lines 6-8: the call returns the document itself, or starts the loop.
ResolveEnter ==
  /\ resolver.pc = "ready"
  /\ Len(resolver.out) < MaxResolveCalls
  /\ IF Falsy(resolver.args)
       THEN resolver' = [resolver EXCEPT !.out = Append(@, resolver.input_artifact)]
       ELSE resolver' = [resolver EXCEPT !.pc = "items",
                                         !.resolved = <<>>,
                                         !.todo = DictKeys(resolver.args)]
  /\ UNCHANGED <<adapters, evals, wf_def, input_artifact, events, calls, pc, job_id, current,
                 visited, next_node, stop_at_node, return_state, resume_state,
                 tool_results, result, raised, next_edge, path, body, emitted,
                 queries>>

\* Mutant: the walk pops the first key of the path out of the document.
ResolveItem_pop(key) ==
  /\ resolver.pc = "items"
  /\ key \in resolver.todo
  /\ LET value == DictGet(resolver.args, key)
         first == Split(Slice2(value[<<>>].text))[1]
         doc == resolver.input_artifact
     IN resolver' =
          [resolver EXCEPT
             !.resolved = (key :> ResolveValue(value, doc)) @@ @,
             !.todo = @ \ {key},
             !.input_artifact =
                IF IsTemplate(value)
                  THEN [q \in {x \in DOMAIN doc : x = <<>> \/ x[1] # first} |-> doc[q]]
                  ELSE doc]
  /\ UNCHANGED <<adapters, evals, wf_def, input_artifact, events, calls, pc, job_id, current,
                 visited, next_node, stop_at_node, return_state, resume_state,
                 tool_results, result, raised, next_edge, path, body, emitted,
                 queries>>

\* lines 9-25: one pass of the loop over args.items().
ResolveItem(key) ==
  /\ resolver.pc = "items"
  /\ key \in resolver.todo
  /\ resolver' =
       [resolver EXCEPT
          !.resolved = (key :> ResolveValue(DictGet(resolver.args, key),
                                            resolver.input_artifact)) @@ @,
          !.todo = @ \ {key}]
  /\ UNCHANGED <<adapters, evals, wf_def, input_artifact, events, calls, pc, job_id, current,
                 visited, next_node, stop_at_node, return_state, resume_state,
                 tool_results, result, raised, next_edge, path, body, emitted,
                 queries>>

\* line 26: return resolved
ResolveReturn ==
  /\ resolver.pc = "items"
  /\ resolver.todo = {}
  /\ resolver' = [resolver EXCEPT !.pc = "ready",
                                  !.out = Append(@, PyDict(resolver.resolved))]
  /\ UNCHANGED <<adapters, evals, wf_def, input_artifact, events, calls, pc, job_id, current,
                 visited, next_node, stop_at_node, return_state, resume_state,
                 tool_results, result, raised, next_edge, path, body, emitted,
                 queries>>

\* ------------------------------------------------- the audit log by itself
\* Events a caller can hand to emit, and the job ids it can ask for.
AuditJobs == {1, 2}

AuditEvents ==
  [event_type : {"STEP_STARTED", "STEP_ENDED"}, job_id : AuditJobs, node_id : {"node-1"}]

\* log.emit(event); emitted[1] records the events the caller has passed.
Emit(event) ==
  /\ Len(emitted[1]) < MaxEmits
  /\ events' = emit(events, event.event_type, event.job_id, event.node_id)
  /\ emitted' = [emitted EXCEPT ![1] = Append(@, event)]
  /\ UNCHANGED <<adapters, evals, wf_def, input_artifact, calls, pc, job_id, current,
                 visited, next_node, stop_at_node, return_state, resume_state,
                 tool_results, result, raised, next_edge, path, body,
                 queries, resolver>>

\* log.get_events(job): the list returned is recorded with the log it was
\* taken from.
Query(job) ==
  /\ Len(queries) < MaxQueries
  /\ queries' = Append(queries, [job_id |-> job,
                                 returned |-> get_events(events, job),
                                 log |-> events])
  /\ UNCHANGED <<adapters, evals, wf_def, input_artifact, events, calls, pc, job_id, current,
                 visited, next_node, stop_at_node, return_state, resume_state,
                 tool_results, result, raised, next_edge, path, body, emitted,
                 resolver>>

\* ------------------------------------------------------- specification
\* The caller makes its run calls one after the other (§5: a Run call is
\* synchronous): a fresh call, and then calls that each resume from the
\* checkpoint the call before returned.
Turn(r) == \A q \in Runs : (q < r => pc[q] \in Terminal) /\ (q > r => pc[q] = "init")

StopOptions == {NULL} \cup NodeIds

Next ==
  \/ \E stop \in StopOptions, ret \in BOOLEAN :
        Turn(1) /\ BeginFresh(1, stop, ret)
  \/ \E r \in Runs \ {1}, stop \in StopOptions, ret \in BOOLEAN :
        Turn(r) /\ BeginResume(r, result[r - 1].state, stop, ret)
  \/ \E r \in Runs : Turn(r) /\ Finish(r)
  \/ \E r \in Runs : Turn(r) /\ CycleDetected(r)
  \/ \E r \in Runs : Turn(r) /\ Pause(r)
  \/ \E r \in Runs : Turn(r) /\ Visit(r)
  \/ \E r \in Runs : Turn(r) /\ Select(r)
  \/ \E r \in Runs : Turn(r) /\ NoValidEdge(r)
  \/ \E r \in Runs : Turn(r) /\ EmitStarted(r)
  \/ \E r \in Runs : Turn(r) /\ CallReturns(r)
  \/ \E r \in Runs : Turn(r) /\ CallRaises(r)
  \/ \E r \in Runs : Turn(r) /\ EmitEnded(r)
  \/ \E r \in Runs : Turn(r) /\ EmitErrored(r)
  \/ \E r \in Runs : Turn(r) /\ Advance(r)

Init == InitWith(PathDefs)

Spec == Init /\ [][Next]_vars

\* A run call is synchronous and every tool call returns or raises (§5), so a
\* call that can take a step takes it.
SpecLive == Spec /\ WF_vars(Next)

\* Uninterrupted fresh runs on the branching definitions.
InitBranch == InitWith(BranchDefs)

NextBranch ==
  \/ Turn(1) /\ BeginFresh(1, NULL, FALSE)
  \/ Turn(1) /\ Finish(1)
  \/ Turn(1) /\ CycleDetected(1)
  \/ Turn(1) /\ Visit(1)
  \/ Turn(1) /\ Select(1)
  \/ Turn(1) /\ NoValidEdge(1)
  \/ Turn(1) /\ EmitStarted(1)
  \/ Turn(1) /\ CallReturns(1)
  \/ Turn(1) /\ CallRaises(1)
  \/ Turn(1) /\ EmitEnded(1)
  \/ Turn(1) /\ EmitErrored(1)
  \/ Turn(1) /\ Advance(1)

SpecBranch == InitBranch /\ [][NextBranch]_vars

\* One call of run(), fresh or resumed from any checkpoint, on the loosely
\* formed definitions.
InitLoose == InitWith(LooseDefs)

NextLoose ==
  \/ Turn(1) /\ BeginFresh(1, NULL, FALSE)
  \/ \E state \in Checkpoints : Turn(1) /\ BeginResume(1, state, NULL, FALSE)
  \/ Turn(1) /\ Finish(1)
  \/ Turn(1) /\ CycleDetected(1)
  \/ Turn(1) /\ Visit(1)
  \/ Turn(1) /\ Select(1)
  \/ Turn(1) /\ NoValidEdge(1)
  \/ Turn(1) /\ EmitStarted(1)
  \/ Turn(1) /\ CallReturns(1)
  \/ Turn(1) /\ CallRaises(1)
  \/ Turn(1) /\ EmitEnded(1)
  \/ Turn(1) /\ EmitErrored(1)
  \/ Turn(1) /\ Advance(1)

SpecLoose == InitLoose /\ [][NextLoose]_vars

\* Fresh uninterrupted runs on the chains whose tool nodes carry templates.
InitArgs == InitWith(ArgDefs)

NextArgs ==
  \/ Turn(1) /\ BeginFresh(1, NULL, FALSE)
  \/ Turn(1) /\ Finish(1)
  \/ Turn(1) /\ Visit(1)
  \/ Turn(1) /\ Select(1)
  \/ Turn(1) /\ EmitStarted(1)
  \/ Turn(1) /\ CallReturns(1)
  \/ Turn(1) /\ CallRaises(1)
  \/ Turn(1) /\ EmitEnded(1)
  \/ Turn(1) /\ EmitErrored(1)
  \/ Turn(1) /\ Advance(1)

SpecArgs == InitArgs /\ [][NextArgs]_vars

\* Calls of resolve_args, one after the other, on one template and one
\* document.
InitResolve ==
  /\ InitRuns({NoWorkflow}, {"nolang"})
  /\ queries = <<>>
  /\ \E t \in Templates, d \in Documents :
        resolver = [NoResolver EXCEPT !.pc = "ready", !.args = t, !.input_artifact = d]
  /\ AdaptersIdle

NextResolve ==
  \/ ResolveEnter
  \/ \E key \in {"x", "y"} : ResolveItem(key)
  \/ ResolveReturn

SpecResolve == InitResolve /\ [][NextResolve]_vars

\* One InMemoryAuditLog and a caller that emits and queries in any order.
InitAudit ==
  /\ InitRuns({NoWorkflow}, {"nolang"})
  /\ queries = <<>>
  /\ resolver = NoResolver
  /\ AdaptersIdle

NextAudit ==
  \/ \E event \in AuditEvents : Emit(event)
  \/ \E job \in AuditJobs : Query(job)

SpecAudit == InitAudit /\ [][NextAudit]_vars

\* Two fresh runs that the host starts concurrently on one definition, one
\* input and one audit log: their steps interleave in any order, each emit and
\* each tool call being one step.
SharedRuns == {1, 2}

InitShared ==
  /\ InitRuns(SharedDefs, SharedInputs)
  /\ queries = <<>>
  /\ resolver = NoResolver
  /\ AdaptersIdle

NextShared ==
  \/ \E r \in SharedRuns : BeginFresh(r, NULL, FALSE)
  \/ \E r \in SharedRuns : Finish(r)
  \/ \E r \in SharedRuns : CycleDetected(r)
  \/ \E r \in SharedRuns : Visit(r)
  \/ \E r \in SharedRuns : Select(r)
  \/ \E r \in SharedRuns : NoValidEdge(r)
  \/ \E r \in SharedRuns : EmitStarted(r)
  \/ \E r \in SharedRuns : CallReturns(r)
  \/ \E r \in SharedRuns : CallRaises(r)
  \/ \E r \in SharedRuns : EmitEnded(r)
  \/ \E r \in SharedRuns : EmitErrored(r)
  \/ \E r \in SharedRuns : Advance(r)

SpecShared == InitShared /\ [][NextShared]_vars

\* ------------------------------------------------- adapter specifications
\* The engine at rest, while an adapter is looked at alone.
EngineIdle ==
  /\ InitRuns({NoWorkflow}, {"nolang"})
  /\ queries = <<>>
  /\ resolver = NoResolver

\* server.handle_request(request); handled records the request, how the call
\* ended and with what, and the server's _initialized and _client_info before
\* and after it.
HandleRequest(request) ==
  /\ Len(handled) < MaxRequests
  /\ LET out == handle_request(mcp_server, request)
     IN /\ mcp_server' = out.self
        /\ handled' = Append(handled,
                        [request |-> request, kind |-> out.kind,
                         response |-> out.value,
                         before |-> <<mcp_server._initialized, mcp_server._client_info>>,
                         after |-> <<out.self._initialized, out.self._client_info>>])
  /\ UNCHANGED <<engine, artifact_store, stored, mcp_client, sent, agent, graph_state, graph_node,
                 execution, memory, added>>

\* One MCPServer on the registry and a caller that sends it requests.
InitServer ==
  /\ EngineIdle
  /\ StoreIdle
  /\ mcp_server = MCPServer(ToolRegistry, "1.0.0")
  /\ handled = <<>>
  /\ ClientIdle
  /\ AgentIdle
  /\ MemoryIdle

NextServer == \E request \in Requests : HandleRequest(request)

SpecServer == InitServer /\ [][NextServer]_vars

\* ---- MCP clients
\* list_tools() and call_tool(), up to their first _send_request.
Enter(c, method) ==
  /\ mcp_client[c].pc = "idle"
  /\ mcp_client[c].call < MaxCalls
  /\ LET self == [mcp_client[c] EXCEPT !.call = @ + 1, !.op = method, !.result = NULL]
     IN IF ~self._initialized
          THEN /\ mcp_client' = [mcp_client EXCEPT ![c] = [self EXCEPT !.pc = "initialize"]]
               /\ sent' = [sent EXCEPT ![c] = Append(@, Posted(self, "initialize"))]
          ELSE /\ mcp_client' = [mcp_client EXCEPT ![c] = [self EXCEPT !.pc = "request"]]
               /\ sent' = [sent EXCEPT ![c] = Append(@, Posted(self, method))]
  /\ UNCHANGED <<engine, artifact_store, stored, mcp_server, handled, agent, graph_state, graph_node,
                 execution, memory, added>>

ClientListTools(c) == Enter(c, "tools/list")

ClientCallTool(c) == Enter(c, "tools/call")

\* The initialize request is answered: initialize() sets the flag and
\* returns, and the call goes on to post its own request.
InitializeReturns(c, outcome) ==
  /\ mcp_client[c].pc = "initialize"
  /\ LET self == initialize(mcp_client[c])
     IN /\ mcp_client' = [mcp_client EXCEPT ![c] = [self EXCEPT !.pc = "request"]]
        /\ sent' = [sent EXCEPT ![c] =
                      Append(Answered(@, outcome), Posted(self, self.op))]
  /\ UNCHANGED <<engine, artifact_store, stored, mcp_server, handled, agent, graph_state, graph_node,
                 execution, memory, added>>

\* _send_request raises in initialize(): the exception leaves the call.
InitializeRaises(c) ==
  /\ mcp_client[c].pc = "initialize"
  /\ mcp_client' = [mcp_client EXCEPT ![c].pc = "idle", ![c].result = "raised"]
  /\ sent' = [sent EXCEPT ![c] = Answered(@, "raised")]
  /\ UNCHANGED <<engine, artifact_store, stored, mcp_server, handled, agent, graph_state, graph_node,
                 execution, memory, added>>

\* The tool request is answered: call_tool raises on an error response,
\* list_tools returns what tools the response has.
RequestReturns(c, outcome) ==
  /\ mcp_client[c].pc = "request"
  /\ mcp_client' =
       [mcp_client EXCEPT
          ![c].pc = "idle",
          ![c].result = IF mcp_client[c].op = "tools/call" /\ outcome = "error"
                          THEN "raised" ELSE "returned"]
  /\ sent' = [sent EXCEPT ![c] = Answered(@, outcome)]
  /\ UNCHANGED <<engine, artifact_store, stored, mcp_server, handled, agent, graph_state, graph_node,
                 execution, memory, added>>

RequestRaises(c) ==
  /\ mcp_client[c].pc = "request"
  /\ mcp_client' = [mcp_client EXCEPT ![c].pc = "idle", ![c].result = "raised"]
  /\ sent' = [sent EXCEPT ![c] = Answered(@, "raised")]
  /\ UNCHANGED <<engine, artifact_store, stored, mcp_server, handled, agent, graph_state, graph_node,
                 execution, memory, added>>

\* The clients of the model, each called by its own caller.
InitClient ==
  /\ EngineIdle
  /\ StoreIdle
  /\ ServerIdle
  /\ ClientIdle
  /\ AgentIdle
  /\ MemoryIdle

NextClient ==
  \/ \E c \in Clients : ClientListTools(c)
  \/ \E c \in Clients : ClientCallTool(c)
  \/ \E c \in Clients, outcome \in {"result", "error"} : InitializeReturns(c, outcome)
  \/ \E c \in Clients : InitializeRaises(c)
  \/ \E c \in Clients, outcome \in {"result", "error"} : RequestReturns(c, outcome)
  \/ \E c \in Clients : RequestRaises(c)

SpecClient == InitClient /\ [][NextClient]_vars

\* ---- agent memory
\* memory.add_human(content), add_assistant(content) and
\* add_tool_result(tool_name, result); added records the entries handed in.
AddHuman(content) ==
  /\ Len(added) < MaxAdds
  /\ memory' = add_human(memory, content, Len(added) + 1)
  /\ added' = Append(added, MemoryEntry("user", content, Len(added) + 1, {}))
  /\ UNCHANGED <<engine, artifact_store, stored, mcp_server, handled, mcp_client, sent, agent,
                 graph_state, graph_node, execution>>

AddAssistant(content) ==
  /\ Len(added) < MaxAdds
  /\ memory' = add_assistant(memory, content, Len(added) + 1)
  /\ added' = Append(added, MemoryEntry("assistant", content, Len(added) + 1, {}))
  /\ UNCHANGED <<engine, artifact_store, stored, mcp_server, handled, mcp_client, sent, agent,
                 graph_state, graph_node, execution>>

AddToolResult(tool_name, res) ==
  /\ Len(added) < MaxAdds
  /\ memory' = add_tool_result(memory, tool_name, res, Len(added) + 1)
  /\ added' = Append(added,
                MemoryEntry("tool", <<tool_name \o ":", res>>,
                            Len(added) + 1, {<<"tool", tool_name>>}))
  /\ UNCHANGED <<engine, artifact_store, stored, mcp_server, handled, mcp_client, sent, agent,
                 graph_state, graph_node, execution>>

\* One InMemoryMemory with a limit, and a caller that adds to it.
InitMemory ==
  /\ EngineIdle
  /\ StoreIdle
  /\ ServerIdle
  /\ ClientIdle
  /\ AgentIdle
  /\ \E max_entries \in 0..MaxEntries : memory = InMemoryMemory(max_entries)
  /\ added = <<>>

NextMemory ==
  \/ \E content \in {Text_answer, Text_tool} : AddHuman(content)
  \/ \E content \in {Text_answer, Text_tool} : AddAssistant(content)
  \/ AddToolResult("test_tool", "ok")

SpecMemory == InitMemory /\ [][NextMemory]_vars

\* ---- LangGraph agent
\* execute(prompt), up to graph.invoke: the agent's counters are reset, the
\* prompt goes to memory, and the graph starts at its entry point.
Execute(prompt) ==
  /\ graph_node = NULL
  /\ agent' = [agent EXCEPT !.iteration_count = 0, !.reasoning_steps = <<>>,
                            !.tool_calls = <<>>]
  /\ memory' = add_human(memory, prompt, Len(added) + 1)
  /\ added' = Append(added, MemoryEntry("user", prompt, Len(added) + 1, {}))
  /\ graph_state' =
       [create_initial_state(agent.max_iterations) EXCEPT
          !.messages = <<SystemMessage(<<"You", "are", "an", "agent">>),
                         HumanMessage(prompt)>>]
  /\ graph_node' = "agent"
  /\ UNCHANGED <<engine, artifact_store, stored, mcp_server, handled, mcp_client, sent, execution>>

\* agent_node(state) with the LLM answering llm; the graph merges the update
\* into the state and asks the router next.
AgentNode(llm) ==
  /\ graph_node = "agent"
  /\ LET messages == graph_state.messages
         iteration == graph_state.iteration_count + 1
         response_text == llm.text
         persona == _extract_persona(response_text)
         handed == IF persona # NULL
                     THEN [add_reasoning_step(agent, <<"Persona", "Switch", persona>>)
                             EXCEPT !.tool_calls =
                               Append(@, [tool |-> "persona_handoff",
                                          args |-> << <<"to", persona>> >>,
                                          result |-> persona])]
                     ELSE agent
         clean_text == IF persona # NULL
                         THEN SubSeq(response_text, 4, Len(response_text))
                         ELSE response_text
         tool_use == _extract_tool_use(response_text)
     IN CASE llm.kind = "raise" ->
               /\ graph_state' = [graph_state EXCEPT
                                    !.iteration_count = iteration,
                                    !.error = "llm failed",
                                    !.error_count = @ + 1]
               /\ UNCHANGED <<agent, memory, added>>
          [] llm.kind = "none" ->
               /\ graph_state' = [graph_state EXCEPT
                                    !.iteration_count = iteration,
                                    !.error = "LLM returned no response"]
               /\ UNCHANGED <<agent, memory, added>>
          [] OTHER ->
               /\ agent' = add_reasoning_step(handed, <<"LLM:">> \o clean_text)
               /\ memory' = add_assistant(memory, response_text, Len(added) + 1)
               /\ added' = Append(added,
                             MemoryEntry("assistant", response_text, Len(added) + 1, {}))
               /\ graph_state' =
                    IF tool_use.tool_name # NULL
                      THEN [graph_state EXCEPT
                              !.messages = Append(messages, AIMessage(response_text)),
                              !.iteration_count = iteration,
                              !.current_tool = tool_use.tool_name,
                              !.tool_input = tool_use.tool_args]
                      ELSE [graph_state EXCEPT
                              !.messages = Append(messages, AIMessage(response_text)),
                              !.iteration_count = iteration]
  /\ graph_node' = "router"
  /\ UNCHANGED <<engine, artifact_store, stored, mcp_server, handled, mcp_client, sent, execution>>

\* The conditional edge after the agent node.
Router ==
  /\ graph_node = "router"
  /\ graph_node' = IF router(graph_state) = "tool_node" THEN "tool" ELSE END
  /\ UNCHANGED <<engine, artifact_store, stored, mcp_server, handled, mcp_client, sent, agent,
                 graph_state, execution, memory, added>>

\* tool_node(state); the graph goes back to the agent node.
ToolNode ==
  /\ graph_node = "tool"
  /\ LET messages == graph_state.messages
         last_msg == messages[Len(messages)]
         reparsed == _extract_tool_use(last_msg.content)
         fallback == graph_state.current_tool = NULL /\ messages # <<>>
                       /\ reparsed.tool_name # NULL
         tool_name == IF fallback THEN reparsed.tool_name ELSE graph_state.current_tool
         tool_input == IF fallback THEN reparsed.tool_args ELSE graph_state.tool_input
         executed == _execute_tool(agent, tool_name, tool_input)
         call_record == [tool |-> tool_name, args |-> tool_input, result |-> executed.value]
     IN IF tool_name = NULL
          THEN /\ graph_state' = [graph_state EXCEPT !.error = "No tool specified"]
               /\ UNCHANGED <<agent, memory, added>>
        ELSE IF executed.kind = "raise"
          THEN /\ graph_state' = [graph_state EXCEPT
                                    !.error = executed.value.message,
                                    !.error_count = @ + 1,
                                    !.current_tool = NULL]
               /\ UNCHANGED <<agent, memory, added>>
        ELSE /\ graph_state' =
                  [graph_state EXCEPT
                     !.messages = Append(messages, ToolMessage(<<executed.value>>, tool_name)),
                     !.tool_results = Append(@, call_record),
                     !.current_tool = NULL,
                     !.tool_input = NULL]
             /\ agent' = add_reasoning_step(
                           [agent EXCEPT !.tool_calls = Append(@, call_record)],
                           <<"Tool", "result:", executed.value>>)
             /\ memory' = add_tool_result(memory, tool_name, executed.value, Len(added) + 1)
             /\ added' = Append(added,
                           MemoryEntry("tool", <<tool_name \o ":", executed.value>>,
                                       Len(added) + 1, {<<"tool", tool_name>>}))
  /\ graph_node' = "agent"
  /\ UNCHANGED <<engine, artifact_store, stored, mcp_server, handled, mcp_client, sent, execution>>

\* execute(prompt), from the final state of the graph to its return.
Finish_execute ==
  /\ graph_node = END
  /\ LET messages == graph_state.messages
         status == IF graph_state.error # NULL THEN "error"
                   ELSE IF graph_state.iteration_count >= agent.max_iterations
                     THEN "incomplete"
                   ELSE "success"
     IN execution' =
          AgentExecutionResult(status, messages[Len(messages)].content,
                               agent.reasoning_steps, agent.tool_calls,
                               graph_state.iteration_count, graph_state.error)
  /\ graph_node' = "returned"
  /\ UNCHANGED <<engine, artifact_store, stored, mcp_server, handled, mcp_client, sent, agent,
                 graph_state, memory, added>>

\* One agent with its two tools and its own memory, executed once on a
\* prompt, with an LLM that answers each turn as it likes.
InitAgent ==
  /\ EngineIdle
  /\ StoreIdle
  /\ ServerIdle
  /\ ClientIdle
  /\ MemoryIdle
  /\ \E max_iterations \in 0..MaxIterations :
        agent = LangGraphAgent(Tools, max_iterations)
  /\ graph_state = create_initial_state(0)
  /\ graph_node = NULL
  /\ execution = AgentExecutionResult(NULL, NULL, <<>>, <<>>, 0, NULL)

NextAgent ==
  \/ Execute(<<"Test">>)
  \/ \E llm \in LLM : AgentNode(llm)
  \/ Router
  \/ ToolNode
  \/ Finish_execute

SpecAgent == InitAgent /\ [][NextAgent]_vars

\* router(state) called on a state as a caller builds it: an initial state
\* with its messages, counters and current_tool set.
MessageLists ==
  { <<HumanMessage(<<"Test">>), AIMessage(Text_tool_with)>>,
    <<HumanMessage(<<"Test">>), AIMessage(Text_answer)>>,
    <<AIMessage(Text_tool)>>,
    <<HumanMessage(<<"Test">>)>>,
    <<>> }

InitRouter ==
  /\ EngineIdle
  /\ StoreIdle
  /\ ServerIdle
  /\ ClientIdle
  /\ MemoryIdle
  /\ agent = LangGraphAgent(Tools, MaxIterations)
  /\ \E max_iterations \in 0..MaxIterations, iteration_count \in 0..MaxIterations,
        current_tool \in {NULL, "test_tool"}, messages \in MessageLists :
        graph_state = [create_initial_state(max_iterations) EXCEPT
                         !.messages = messages,
                         !.iteration_count = iteration_count,
                         !.current_tool = current_tool]
  /\ graph_node = "router"
  /\ execution = AgentExecutionResult(NULL, NULL, <<>>, <<>>, 0, NULL)

NextRouter == Router

SpecRouter == InitRouter /\ [][NextRouter]_vars

\* ---- artifact store
\* store.put(job_id, artifact) and store.get(ref); stored records each call,
\* how it ended and with what, and the store before and after it.
Put(job, artifact) ==
  /\ Len(stored) < MaxPuts
  /\ LET out == put(artifact_store, job, artifact)
     IN /\ artifact_store' = out.self
        /\ stored' = Append(stored,
                       [op |-> "put", job_id |-> job, artifact |-> artifact,
                        kind |-> out.kind, value |-> out.value,
                        before |-> artifact_store, after |-> out.self])
  /\ UNCHANGED <<engine, mcp_server, handled, mcp_client, sent, agent,
                 graph_state, graph_node, execution, memory, added>>

Get(ref) ==
  /\ Len(stored) < MaxPuts
  /\ LET out == get(artifact_store, ref)
     IN /\ artifact_store' = out.self
        /\ stored' = Append(stored,
                       [op |-> "get", ref |-> ref,
                        kind |-> out.kind, value |-> out.value,
                        before |-> artifact_store, after |-> out.self])
  /\ UNCHANGED <<engine, mcp_server, handled, mcp_client, sent, agent,
                 graph_state, graph_node, execution, memory, added>>

\* One empty store and a caller that puts and gets.
InitStore ==
  /\ EngineIdle
  /\ AdaptersIdle

NextStore ==
  \/ \E job \in StoreJobs, artifact \in Artifacts : Put(job, artifact)
  \/ \E ref \in Refs : Get(ref)

SpecStore == InitStore /\ [][NextStore]_vars

\* ------------------------------------------------------- claim helpers
Elems(seq) == {seq[i] : i \in DOMAIN seq}

HasRepeat(seq) == \E i, j \in DOMAIN seq : i < j /\ seq[i] = seq[j]

EventsAt(node, type) ==
  {i \in DOMAIN events : events[i].node_id = node /\ events[i].event_type = type}

CallsAt(node) == {i \in DOMAIN calls : calls[i].node_id = node}

\* get_events(job_id) of the run r
JobEvents(r) == SelectSeq(events, LAMBDA e : e.job_id = job_id[r])

\* The uninterrupted traversal of the definition on the input when every tool
\* returns: "completed", "cycle" or "noedge".
RECURSIVE Traverse(_, _)
Traverse(node, vis) ==
  IF node.type = "end" THEN "completed"
  ELSE IF AlreadyVisited(node, vis) THEN "cycle"
  ELSE LET sel == SelectEdge(Outgoing(wf_def.edges, node.id), input_artifact)
       IN IF sel = <<>> THEN "noedge"
          ELSE Traverse(node_map(wf_def.nodes, sel[1].to), MarkVisited(node, vis))

RouteCompletes == Traverse(FirstStart(wf_def.nodes), {}) = "completed"

Fresh(r) == pc[r] # "init" /\ resume_state[r] = NoState

\* ---------------------------------------------------------------- C1
\* C1: a fresh run with stop_at_node = P (a tool node it reaches) and
\* return_state returns paused with a checkpoint at P; a later run resumed from
\* that checkpoint without a stop node, on a definition whose traversal
\* completes and with tools that return, ends completed; and then the whole
\* audit log holds exactly one STEP_STARTED and one STEP_ENDED of P and the
\* tool client was called exactly once for P.
C1_Paused(q) ==
  /\ Fresh(q) /\ pc[q] \in Terminal
  /\ return_state[q] /\ stop_at_node[q] \in ToolIds
  /\ stop_at_node[q] \in Elems(path[q])

C1_Resumed(q, r) ==
  /\ q < r /\ C1_Paused(q)
  /\ pc[r] \in Terminal
  /\ resume_state[r] = result[q].state /\ stop_at_node[r] = NULL
  /\ raised[r] # "ToolError"
  /\ RouteCompletes

C1_PauseResumeOnce ==
  \A q \in Runs :
    C1_Paused(q) =>
      /\ pc[q] = "returned" /\ result[q].status = "paused"
      /\ result[q].state # NoState
      /\ result[q].state.current_node_id = stop_at_node[q]
      /\ \A r \in Runs :
           C1_Resumed(q, r) =>
             /\ pc[r] = "returned" /\ result[r].status = "completed"
             /\ Cardinality(EventsAt(stop_at_node[q], "STEP_STARTED")) = 1
             /\ Cardinality(EventsAt(stop_at_node[q], "STEP_ENDED")) = 1
             /\ Cardinality(CallsAt(stop_at_node[q])) = 1

\* Run 1 paused at a tool node and run 2, resumed from its checkpoint, went
\* through a further tool node and completed.
C1_Witness ==
  /\ C1_Resumed(1, 2)
  /\ result[2].status = "completed"
  /\ Len(tool_results[2]) >= 1

\* ---------------------------------------------------------------- C2
ToolSeqs ==
  {ts \in UNION {[1..k -> ToolIds] : k \in 0..Cardinality(ToolIds)} : ~HasRepeat(ts)}

\* The edges of the chain start -> ts[1] -> ... -> ts[N] -> end, none guarded.
ChainEdges(ts) ==
  LET hops == <<"start">> \o ts \o <<"end">>
  IN {[from |-> hops[i], to |-> hops[i + 1], condition |-> NULL] : i \in 1..(Len(ts) + 1)}

IsChainOf(ts) ==
  /\ Len(wf_def.edges) = Len(ts) + 1
  /\ Elems(wf_def.edges) = ChainEdges(ts)

RECURSIVE ToolPairs(_, _)
ToolPairs(ts, job) ==
  IF ts = <<>> THEN <<>>
  ELSE << [event_type |-> "STEP_STARTED", job_id |-> job, node_id |-> Head(ts)],
          [event_type |-> "STEP_ENDED", job_id |-> job, node_id |-> Head(ts)] >>
       \o ToolPairs(Tail(ts), job)

ChainTrail(ts, job) ==
  <<[event_type |-> "STEP_STARTED", job_id |-> job, node_id |-> "start"]>>
  \o ToolPairs(ts, job)
  \o <<[event_type |-> "STEP_ENDED", job_id |-> job, node_id |-> "end"]>>

\* C2: on a guard-free chain start -> N tool nodes -> end, a fresh run without
\* a stop node whose tool calls all return ends completed, and its audit trail
\* (the log queried by its job id, no other call having used the log) is
\* exactly STEP_STARTED(start), the STEP_STARTED/STEP_ENDED pair of each tool
\* node in chain order, STEP_ENDED(end): 2N+2 events.
C2_ChainTrail ==
  \A ts \in ToolSeqs :
    (/\ IsChainOf(ts)
     /\ Fresh(1) /\ pc[1] \in Terminal /\ stop_at_node[1] = NULL
     /\ \A q \in Runs \ {1} : pc[q] = "init"
     /\ raised[1] # "ToolError")
    => /\ pc[1] = "returned" /\ result[1].status = "completed"
       /\ JobEvents(1) = ChainTrail(ts, job_id[1])
       /\ JobEvents(1) = events
       /\ Len(events) = 2 * Len(ts) + 2

\* A completed fresh run on the chain start -> t2 -> t1 -> end.
C2_Witness ==
  /\ IsChainOf(<<"t2", "t1">>)
  /\ Fresh(1) /\ stop_at_node[1] = NULL
  /\ result[1].status = "completed"

\* ---------------------------------------------------------------- C3
\* C3: once the traversal of a run call has arrived a second time at a node
\* (current is bound to a node it was bound to before in the same call), the
\* call can only raise the cycle error: it never returns.
C3_CycleFails ==
  \A r \in Runs :
    HasRepeat(path[r]) =>
      /\ pc[r] \in {"loop", "raised"}
      /\ pc[r] = "raised" => raised[r] = "CycleDetected"
      /\ result[r].status = NULL

\* A fresh run came back to the start node and raised the cycle error.
C3_Witness ==
  /\ HasRepeat(path[1])
  /\ path[1][Len(path[1])] = "start"
  /\ raised[1] = "CycleDetected"

\* ---------------------------------------------------------------- C4
JobCallsAt(r, node) ==
  {i \in DOMAIN calls : calls[i].job_id = job_id[r] /\ calls[i].node_id = node}

JobEventsAt(r, node, type) ==
  {i \in DOMAIN events : /\ events[i].job_id = job_id[r]
                         /\ events[i].node_id = node
                         /\ events[i].event_type = type}

\* C4: within one run call each tool node's tool is called at most once and
\* its STEP_STARTED is emitted at most once, also when the traversal re-enters
\* the node through a cycle.
C4_NoSecondInvocation ==
  \A r \in Runs : \A n \in ToolIds :
    /\ Cardinality(JobCallsAt(r, n)) <= 1
    /\ Cardinality(JobEventsAt(r, n, "STEP_STARTED")) <= 1

\* ---------------------------------------------------------------- C5
\* C5: when the tool call of node X has raised in a run call, that call's
\* audit trail holds STEP_STARTED(X) followed by STEP_ERRORED(X) as its last
\* two events and no STEP_ENDED(X), the call has raised the tool's error, and
\* the tool client was called exactly once for X in that call.
C5_ErrorPropagates ==
  \A r \in Runs :
    raised[r] = "ToolError" =>
      LET X == next_node[r].id
          trail == JobEvents(r)
      IN /\ pc[r] = "raised"
         /\ Len(trail) >= 2
         /\ trail[Len(trail) - 1].event_type = "STEP_STARTED"
         /\ trail[Len(trail) - 1].node_id = X
         /\ trail[Len(trail)].event_type = "STEP_ERRORED"
         /\ trail[Len(trail)].node_id = X
         /\ JobEventsAt(r, X, "STEP_ENDED") = {}
         /\ Cardinality(JobCallsAt(r, X)) = 1

\* ---------------------------------------------------------------- C6
\* No call is inside run(): each has not begun, has returned or has raised.
Quiet == \A r \in Runs : pc[r] \in Terminal \cup {"init"}

\* C6: the loop body gets past the cycle check at most once per node in a run
\* call, and every run call that has begun returns or raises: from some point
\* on no call is in progress any more.
C6_Terminates ==
  /\ [](\A r \in Runs : ~HasRepeat(body[r]) /\ Len(body[r]) <= Len(wf_def.nodes))
  /\ <>[]Quiet

\* A run on a cyclic route has terminated with the cycle error after the loop
\* body ran for three nodes.
C6_Witness ==
  /\ raised[1] = "CycleDetected"
  /\ Len(body[1]) = 3

\* ------------------------------------------------- edge selection claims
Min(S) == CHOOSE x \in S : \A y \in S : x <= y

\* Positions of the outgoing edges whose guard evaluates true, whose guard
\* raises, and that carry no guard.
TrueGuards(out) ==
  {i \in DOMAIN out : out[i].condition # NULL /\ Eval(out[i].condition, input_artifact) = "true"}

RaisingGuards(out) ==
  {i \in DOMAIN out : out[i].condition # NULL /\ Eval(out[i].condition, input_artifact) = "raise"}

Unguarded(out) == {i \in DOMAIN out : out[i].condition = NULL}

\* The call r has run its edge selection for the node current[r].
AfterSelect(r) == pc[r] \in {"tool_start", "tool_call", "tool_ended", "tool_errored", "advance"}

OutOf(r) == Outgoing(wf_def.edges, current[r].id)

\* ---------------------------------------------------------------- C7
\* C7: when some guard of the current node's edges evaluates true the edge
\* followed is a guarded edge whose guard is true, wherever the unconditional
\* edges are declared; an unconditional edge is followed only when no guard
\* evaluates true.
C7_GuardBeatsUnconditional ==
  \A r \in Runs :
    AfterSelect(r) =>
      /\ TrueGuards(OutOf(r)) # {} =>
            \E i \in TrueGuards(OutOf(r)) : next_edge[r] = <<OutOf(r)[i]>>
      /\ TrueGuards(OutOf(r)) = {} =>
            \E i \in Unguarded(OutOf(r)) : next_edge[r] = <<OutOf(r)[i]>>

\* The start node declares an unconditional edge first and then an edge to
\* another node whose guard is true; the guarded edge was followed.
C7_Witness ==
  /\ AfterSelect(1) /\ current[1].id = "start"
  /\ Len(OutOf(1)) = 2
  /\ Unguarded(OutOf(1)) = {1} /\ TrueGuards(OutOf(1)) = {2}
  /\ OutOf(1)[1].to # OutOf(1)[2].to
  /\ next_node[1].id = OutOf(1)[2].to

\* ---------------------------------------------------------------- C8
NodeEvents(node) == {i \in DOMAIN events : events[i].node_id = node}

\* The start node declares exactly two edges, both guarded, to the two tool
\* nodes, exactly one guard is true on the input, and both tool nodes lead to
\* the end node; taken is the tool node behind the true guard.
C8_Branching(taken, other) ==
  LET out == Outgoing(wf_def.edges, "start")
  IN /\ Len(out) = 2 /\ Unguarded(out) = {}
     /\ Cardinality(TrueGuards(out)) = 1
     /\ taken \in ToolIds /\ other \in ToolIds /\ taken # other
     /\ \E i \in TrueGuards(out) : out[i].to = taken /\ out[3 - i].to = other
     /\ Outgoing(wf_def.edges, taken) = <<[from |-> taken, to |-> "end", condition |-> NULL]>>
     /\ Outgoing(wf_def.edges, other) = <<[from |-> other, to |-> "end", condition |-> NULL]>>

\* C8: with two guarded edges of which exactly one is true, no event is ever
\* emitted and no tool call ever made for the node behind the other edge, and
\* the run, if its tool call returns, completes with the STEP_STARTED and
\* STEP_ENDED of the node behind the true edge and one call of its tool.
C8_OnlyTrueBranch ==
  \A taken, other \in ToolIds :
    (C8_Branching(taken, other) /\ Fresh(1)) =>
      /\ NodeEvents(other) = {} /\ CallsAt(other) = {}
      /\ (pc[1] \in Terminal /\ raised[1] # "ToolError") =>
            /\ result[1].status = "completed"
            /\ JobEvents(1) = ChainTrail(<<taken>>, job_id[1])
            /\ Cardinality(CallsAt(taken)) = 1

\* On input B the second edge's guard is the true one and the run completed
\* through t2.
C8_Witness ==
  /\ C8_Branching("t2", "t1")
  /\ TrueGuards(Outgoing(wf_def.edges, "start")) = {2}
  /\ input_artifact = "B"
  /\ result[1].status = "completed"

\* ---------------------------------------------------------------- C9
NoViable(out) == \A i \in DOMAIN out : i \notin Unguarded(out) /\ i \notin TrueGuards(out)

\* C9: a call that is about to select an edge at a node none of whose edges
\* is unconditional or has a true guard (or that has no edge) raises the
\* no-valid-edge error in its next step, which emits no event, calls no tool
\* and enters no node.
C9_NoViableTransition ==
  [][\A r \in Runs :
       (pc[r] = "select" /\ pc'[r] # "select" /\ NoViable(OutOf(r))) =>
          /\ pc'[r] = "raised" /\ raised'[r] = "NoValidEdge"
          /\ events' = events /\ calls' = calls
          /\ current' = current /\ path' = path /\ tool_results' = tool_results]_vars

\* The start node declares two guarded edges, none true, and the call raised
\* the no-valid-edge error with only the start node's event in the log.
C9_Witness ==
  /\ raised[1] = "NoValidEdge" /\ current[1].id = "start"
  /\ Len(OutOf(1)) = 2 /\ NoViable(OutOf(1))
  /\ Len(events) = 1 /\ calls = <<>>

\* --------------------------------------------------------------- C10
\* The edge the scan selects when a raising guard counts as a false one: the
\* first edge with a true guard, else the first unconditional edge, else none.
EdgeIfRaiseIsFalse(out) ==
  IF TrueGuards(out) # {} THEN <<out[Min(TrueGuards(out))]>>
  ELSE IF Unguarded(out) # {} THEN <<out[Min(Unguarded(out))]>>
  ELSE <<>>

SelectionDone(r) ==
  \/ AfterSelect(r)
  \/ pc[r] = "raised" /\ raised[r] \in {"NoValidEdge", "ToolError"}

\* C10: when guards of the current node's edges raise, the selection made is
\* the one made with those guards false: the edges after a raising guard are
\* still scanned, and the only error the selection can end in is the
\* no-valid-edge error.
C10_RaisingGuardIsFalse ==
  \A r \in Runs :
    (SelectionDone(r) /\ RaisingGuards(OutOf(r)) # {}) =>
       next_edge[r] = EdgeIfRaiseIsFalse(OutOf(r))

\* The first edge's guard raises, the second edge's guard is true and was
\* followed.
C10_Witness ==
  /\ AfterSelect(1) /\ Len(OutOf(1)) = 2
  /\ RaisingGuards(OutOf(1)) = {1} /\ TrueGuards(OutOf(1)) = {2}
  /\ next_edge[1] = <<OutOf(1)[2]>>
  /\ OutOf(1)[1].to # OutOf(1)[2].to

\* ------------------------------------------- definition and checkpoint errors
StartCount(nodes) == Cardinality({i \in DOMAIN nodes : nodes[i].type = "start"})

DeclaredIds(nodes) == {nodes[i].id : i \in DOMAIN nodes}

DanglingEdges(def) ==
  {i \in DOMAIN def.edges :
     def.edges[i].from \notin DeclaredIds(def.nodes) \/ def.edges[i].to \notin DeclaredIds(def.nodes)}

DuplicateIds(nodes) == {i \in DOMAIN nodes : \E j \in DOMAIN nodes : j # i /\ nodes[j].id = nodes[i].id}

\* The definition was turned down before anything ran: no event is in the log,
\* no tool was called, no call got past its first statements or returned.
NothingRan ==
  /\ events = <<>> /\ calls = <<>>
  /\ \A r \in Runs : pc[r] \in {"init", "raised"}

\* ---------------------------------------------------------------- C11
\* C11: a definition with no start node or with more than one start node is
\* rejected before any job exists: no audit event is emitted, no tool is
\* called and no call of run() on it gets under way.
C11_StartNodeCountChecked == StartCount(wf_def.nodes) # 1 => NothingRan

\* ---------------------------------------------------------------- C12
\* C12: a definition with an edge whose from or to names an undeclared node
\* is rejected before traversal starts: no audit event is emitted and no tool
\* is called, however far down the path the dangling edge lies.
C12_DanglingEdgeChecked == DanglingEdges(wf_def) # {} => NothingRan

\* ---------------------------------------------------------------- C13
\* C13: a definition in which two nodes share an id is rejected; it is never
\* executed with one of the colliding nodes standing in for the other.
C13_DuplicateIdChecked == DuplicateIds(wf_def.nodes) # {} => NothingRan

\* ---------------------------------------------------------------- C14
\* C14: a call of run() with a resume checkpoint whose current_node_id is not
\* a node of the definition fails (the lookup error of line 33) without
\* emitting an audit event or calling a tool.
C14_BadCheckpointFails ==
  \A r \in Runs :
    (/\ pc[r] # "init" /\ resume_state[r] # NoState
     /\ resume_state[r].current_node_id \notin DeclaredIds(wf_def.nodes))
    => /\ pc[r] = "raised" /\ raised[r] = "KeyError"
       /\ events = <<>> /\ emitted[r] = <<>> /\ calls = <<>>
       /\ result[r].status = NULL

\* A call resumed from a checkpoint at the undeclared node "ghost" on a
\* definition that a fresh call would complete.
C14_Witness ==
  /\ resume_state[1].current_node_id = "ghost"
  /\ raised[1] = "KeyError"
  /\ StartCount(wf_def.nodes) = 1
  /\ Len(wf_def.edges) >= 2

\* ---------------------------------------------------------------- C15
\* C15: every call the tool client receives for a tool node that declares no
\* argument template carries the whole input document as its arguments, and
\* the document of the run is the one the caller passed.
C15_PassThrough ==
  \A i \in DOMAIN calls :
    node_map(wf_def.nodes, calls[i].node_id).args = PyNone =>
      calls[i].args = Doc(input_artifact)

\* The tool of t1 (a template) got {x: "A"} and the tool of t2 (no template)
\* got the document {lang: "A"}.
C15_Witness ==
  /\ Len(calls) = 2 /\ input_artifact = "A"
  /\ calls[1].args = PyDict([k \in {"x"} |-> PyStr(<<"A">>)])
  /\ node_map(wf_def.nodes, "t2").args = PyNone
  /\ calls[2].node_id = "t2"
  /\ calls[2].args = PyDict([k \in {"lang"} |-> PyStr(<<"A">>)])

\* ---------------------------------------------------------------- C16
\* The key path a value of the form ${a.b.c} names: <<"a", "b", "c">>.
C16_Path(value) == Split(Slice2(value[<<>>].text))

\* The map the claim describes: the template's keys, each ${...} value
\* replaced by what the document holds under its path, or by None when the
\* path leaves the document, every other value copied.
C16_Expected(template, doc) ==
  PyDict([key \in DictKeys(template) |->
            LET value == Subtree(template, <<key>>)
            IN IF IsTemplate(value)
                 THEN (IF C16_Path(value) \in DOMAIN doc
                         THEN Subtree(doc, C16_Path(value)) ELSE PyNone)
                 ELSE value])

\* C16: for a present template, also one with zero keys, every value
\* resolve_args returns is the map with exactly the template's keys in which
\* each value of the form ${a.b.c} is replaced by the value found by walking
\* the document along a, b, c (None once a segment is missing or the value
\* reached is not a map) and every other value is copied unchanged.
C16_ResolvesTemplate ==
  \A i \in DOMAIN resolver.out :
    resolver.args # PyNone =>
      resolver.out[i] = C16_Expected(resolver.args, resolver.input_artifact)

\* The same for the templates that have a key.
C16_NonEmptyTemplates ==
  \A i \in DOMAIN resolver.out :
    ~Falsy(resolver.args) =>
      resolver.out[i] = C16_Expected(resolver.args, resolver.input_artifact)

\* ---------------------------------------------------------------- C17
\* C17: no step of a call of resolve_args changes the template or the input
\* document, and all the calls made with them return equal values.
C17_PureAndRepeatable ==
  [][/\ resolver'.args = resolver.args
     /\ resolver'.input_artifact = resolver.input_artifact
     /\ \A i, j \in DOMAIN resolver'.out : resolver'.out[i] = resolver'.out[j]]_vars

\* Two calls with the template {x: "${a.b}", y: "${c.d}"} on the document
\* {a: {b: "v"}, c: "w"} have returned {x: "v", y: None}.
C17_Witness ==
  /\ Len(resolver.out) = 2
  /\ resolver.args = PyDict([k \in {"x", "y"} |->
                               IF k = "x" THEN PyStr(<<"$", "{", "a", ".", "b", "}">>)
                                          ELSE PyStr(<<"$", "{", "c", ".", "d", "}">>)])
  /\ DictKeys(resolver.input_artifact) = {"a", "c"}
  /\ resolver.out[2] = PyDict([k \in {"x", "y"} |->
                                 IF k = "x" THEN PyStr(<<"v">>) ELSE PyNone])

\* ------------------------------------------------------- audit log claims
IsPrefix(a, b) == Len(a) <= Len(b) /\ SubSeq(b, 1, Len(a)) = a

\* ---------------------------------------------------------------- C18
\* C18: the log is append-only.  Of two get_events results for one job the
\* earlier is a prefix of the later, the log a query saw is a prefix of the
\* log now, and every emit call leaves the stored events as they were and in
\* place and adds exactly one entry at the end, also when an equal event is
\* already stored: the log has one entry per emit call.
C18_AppendOnly ==
  /\ [](/\ \A i, j \in DOMAIN queries :
             (i < j /\ queries[i].job_id = queries[j].job_id) =>
                IsPrefix(queries[i].returned, queries[j].returned)
        /\ \A i \in DOMAIN queries : IsPrefix(queries[i].log, events)
        /\ Len(events) = Len(emitted[1]))
  /\ [][emitted' # emitted =>
          /\ Len(events') = Len(events) + 1
          /\ SubSeq(events', 1, Len(events)) = events
          /\ events'[Len(events')] = emitted'[1][Len(emitted'[1])]]_vars

\* The same event was emitted twice with a query of its job after each: the
\* results have one and two entries.
C18_Witness ==
  /\ Len(queries) = 2 /\ Len(events) = 2
  /\ events[1] = events[2]
  /\ queries[1].job_id = events[1].job_id /\ queries[2].job_id = events[1].job_id
  /\ Len(queries[1].returned) = 1 /\ Len(queries[2].returned) = 2

\* ---------------------------------------------------------------- C19
\* The positions in log of the events of job, and the k-th of them.
PositionsOf(log, job) == {i \in DOMAIN log : log[i].job_id = job}

KthOf(S, k) == CHOOSE i \in S : Cardinality({j \in S : j < i}) = k - 1

\* C19: what get_events(job) returns is exactly the emitted events whose
\* job_id is job, as many as were emitted and in the order of emission; no
\* event of another job is in it.
C19_QueryFiltersInOrder ==
  \A n \in DOMAIN queries :
    LET q == queries[n]
        at == PositionsOf(q.log, q.job_id)
    IN /\ Len(q.returned) = Cardinality(at)
       /\ \A k \in DOMAIN q.returned :
            /\ q.returned[k] = q.log[KthOf(at, k)]
            /\ q.returned[k].job_id = q.job_id

\* A query of job 1 on a log holding a STEP_STARTED of job 1, an event of
\* job 2 and a STEP_ENDED of job 1 returned the two events of job 1.
C19_Witness ==
  \E n \in DOMAIN queries :
    /\ queries[n].job_id = 1 /\ Len(queries[n].log) = 3
    /\ queries[n].log[1].job_id = 1 /\ queries[n].log[2].job_id = 2
    /\ queries[n].log[3].job_id = 1
    /\ queries[n].log[1].event_type = "STEP_STARTED"
    /\ queries[n].log[3].event_type = "STEP_ENDED"
    /\ Len(queries[n].returned) = 2

C21_ResumedTrailHasPausedNode ==
  \A q, r \in Runs :
    (C1_Resumed(q, r) /\ result[r].status = "completed") =>
      \E i \in DOMAIN get_events(events, job_id[r]) :
         get_events(events, job_id[r])[i].node_id = stop_at_node[q]

\* ---------------------------------------------------------------- C22
\* The tool calls the call r of run() has made.
CallsBy(r) == SelectSeq(calls, LAMBDA c : c.caller = r)

\* C22: a failure inside the traversal ends the call at once.  A call that has
\* raised has returned nothing and its last event is no STEP_ENDED of an end
\* node; from the moment the error is on its way out (raised[r] is set) the
\* call emits no event and calls no tool; a step that raises the cycle or the
\* no-edge error emits nothing itself; and no step ever changes or removes an
\* event that is in the log.
C22_FailureHalts ==
  /\ [](\A r \in Runs :
          raised[r] # NULL =>
            /\ pc[r] = "raised" /\ result[r].status = NULL
            /\ emitted[r] # <<>> =>
                 ~(/\ emitted[r][Len(emitted[r])].event_type = "STEP_ENDED"
                   /\ node_map(wf_def.nodes, emitted[r][Len(emitted[r])].node_id).type = "end"))
  /\ [][/\ IsPrefix(events, events')
        /\ \A r \in Runs :
             /\ raised[r] # NULL =>
                  /\ emitted'[r] = emitted[r] /\ CallsBy(r)' = CallsBy(r)
                  /\ raised'[r] = raised[r]
             /\ (raised[r] = NULL /\ raised'[r] \in {"CycleDetected", "NoValidEdge"}) =>
                  events' = events /\ calls' = calls]_vars

\* A run went through t1, failed in the tool of t2 and left the five events up
\* to STEP_ERRORED(t2) in the log.
C22_Witness ==
  /\ raised[1] = "ToolError" /\ next_node[1].id = "t2"
  /\ Len(emitted[1]) = 5
  /\ emitted[1][5].event_type = "STEP_ERRORED"
  /\ events = emitted[1]

\* ---------------------------------------------------------------- C23
\* The entries the successful tool calls of call r stand for, in call order.
RECURSIVE ResultsOf(_)
ResultsOf(cs) ==
  IF cs = <<>> THEN <<>>
  ELSE (IF Head(cs).ok THEN <<[node_id |-> Head(cs).node_id, result |-> Head(cs).tool]>>
        ELSE <<>>) \o ResultsOf(Tail(cs))

\* C23: the tool_results a call of run() returns hold exactly one entry
\* {node_id, result} per tool call of that call that returned, in call order;
\* so the tool_results of a resumed call hold no result from before the pause.
C23_ToolResultsPerCall ==
  \A r \in Runs :
    pc[r] = "returned" =>
      /\ tool_results[r] = ResultsOf(CallsBy(r))
      /\ \A i \in DOMAIN tool_results[r] :
           \E k \in DOMAIN calls :
              /\ calls[k].caller = r /\ calls[k].ok
              /\ calls[k].node_id = tool_results[r][i].node_id

\* Run 1 paused at t1 after the tool call of t1; run 2, resumed from its
\* checkpoint, called the tool of t2 and completed with that one result.
C23_Witness ==
  /\ result[1].status = "paused" /\ Len(tool_results[1]) = 1
  /\ tool_results[1][1].node_id = "t1"
  /\ result[2].status = "completed"
  /\ tool_results[2] = <<[node_id |-> "t2", result |-> "tool_t2"]>>
  /\ Len(calls) = 2

\* ---------------------------------------------------------------- C24
\* An audit trail without its job ids.
StripJob(trail) == [i \in DOMAIN trail |-> [event_type |-> trail[i].event_type,
                                            node_id |-> trail[i].node_id]]

\* Whether each tool call of call r returned or raised, in call order.
Outcomes(r) == [i \in DOMAIN CallsBy(r) |-> [tool |-> CallsBy(r)[i].tool,
                                             ok |-> CallsBy(r)[i].ok]]

\* C24: no step of a run changes the workflow definition or the input, and
\* two fresh runs on one definition and input, one after the other or
\* interleaved, whose tool calls had the same outcomes (a deterministic tool
\* client) end the same way: same status or same error, same tool_results,
\* and the same events in the same order apart from the job id.
C24_RunsAreIndependent ==
  /\ [](\A q, r \in Runs :
          (/\ pc[q] \in Terminal /\ pc[r] \in Terminal
           /\ Fresh(q) /\ Fresh(r) /\ stop_at_node[q] = stop_at_node[r]
           /\ Outcomes(q) = Outcomes(r))
          => /\ pc[q] = pc[r] /\ result[q].status = result[r].status
             /\ raised[q] = raised[r]
             /\ tool_results[q] = tool_results[r]
             /\ StripJob(emitted[q]) = StripJob(emitted[r]))
  /\ [][wf_def' = wf_def /\ input_artifact' = input_artifact]_vars

\* Two runs whose steps interleaved (their events alternate in the shared
\* log) both ran into the cycle t1 -> start after one tool call each.
C24_Witness ==
  /\ raised[1] = "CycleDetected" /\ raised[2] = "CycleDetected"
  /\ Len(tool_results[1]) = 1 /\ Len(tool_results[2]) = 1
  /\ Len(events) = 6
  /\ \A i \in 1..5 : events[i].job_id # events[i + 1].job_id

\* ----------------------------------------------------------------- C25
\* The request h records is a JSON-RPC 2.0 request for the method.
IsCall(h, method) ==
  /\ IsDict(h.request)
  /\ DictGet(h.request, "jsonrpc") = PyStr(Version_2_0)
  /\ DictGet(h.request, "method") = PyStr(method)

InitializeSucceeded(h) ==
  IsCall(h, Method_initialize) /\ h.kind = "return" /\ "result" \in DOMAIN h.response

\* C25: MCPServer answers tools/list with an INVALID_REQUEST error as long as
\* no initialize request has been answered with a result (none sent yet, or
\* the ones sent rejected), and with the tools of the registry, in the
\* registry's order, once one has.
C25_ToolsListAfterInitialize ==
  \A i \in 1..Len(handled) :
    IsCall(handled[i], Method_tools_list) =>
      /\ handled[i].kind = "return"
      /\ IF \E j \in 1..(i - 1) : InitializeSucceeded(handled[j])
           THEN /\ "result" \in DOMAIN handled[i].response
                /\ LET tools == handled[i].response.result.tools
                   IN /\ Len(tools) = Len(mcp_server.tool_registry)
                      /\ \A k \in 1..Len(tools) :
                            tools[k].name = mcp_server.tool_registry[k].name
           ELSE /\ "error" \in DOMAIN handled[i].response
                /\ handled[i].response.error.code = INVALID_REQUEST

\* A rejected initialize, tools/list refused, initialize accepted, tools/list
\* answered with the four tools.
C25_Witness ==
  /\ Len(handled) = 4
  /\ handled[1].request = MismatchRequest
  /\ handled[1].response.error.code = INVALID_PARAMS
  /\ handled[2].request = ToolsListRequest
  /\ handled[2].response.error.code = INVALID_REQUEST
  /\ handled[3].request = InitializeRequest
  /\ "result" \in DOMAIN handled[3].response
  /\ handled[4].request = ToolsListRequest
  /\ Len(handled[4].response.result.tools) = 4

InitializeReturned(q) == q.method = "initialize" /\ q.outcome \in {"result", "error"}

InitializeRaised(q) == q.method = "initialize" /\ q.outcome = "raised"

\* The requests client c has posted in its first call.
FirstCall(c) == SelectSeq(sent[c], LAMBDA q : q.call = 1)

\* C27: on each client, a tools/list or tools/call request comes after an
\* initialize request of that client; the first call on a client whose
\* initialize request is answered posts two requests, initialize and then the
\* call's own; no initialize request follows one that was answered; and when
\* the initialize request raises, the call posts nothing more and the client
\* is left uninitialized.
C27_LazyInitializeOnce ==
  \A c \in Clients :
    /\ \A i \in 1..Len(sent[c]) :
          sent[c][i].method # "initialize" =>
            \E j \in 1..(i - 1) : sent[c][j].method = "initialize"
    /\ (mcp_client[c].call > 1 \/ (mcp_client[c].call = 1 /\ mcp_client[c].pc = "idle"))
          => \/ Len(FirstCall(c)) = 1 /\ InitializeRaised(FirstCall(c)[1])
             \/ /\ Len(FirstCall(c)) = 2
                /\ InitializeReturned(FirstCall(c)[1])
                /\ FirstCall(c)[2].method = FirstCall(c)[2].op
    /\ \A i \in 1..Len(sent[c]), j \in 1..Len(sent[c]) :
          (i < j /\ InitializeReturned(sent[c][i])) => sent[c][j].method # "initialize"
    /\ \A i \in 1..Len(sent[c]) :
          InitializeRaised(sent[c][i]) =>
            /\ \A j \in (i + 1)..Len(sent[c]) : sent[c][j].call # sent[c][i].call
            /\ i = Len(sent[c]) => ~mcp_client[c]._initialized /\ mcp_client[c].pc = "idle"

\* Client 1 has made a first call that initialized it and a second call that
\* posted its request alone; the initialize request of client 2 has raised.
C27_Witness ==
  /\ Len(sent[1]) = 3
  /\ InitializeReturned(sent[1][1])
  /\ sent[1][2].method = "tools/call" /\ sent[1][2].call = 1
  /\ sent[1][3].method = "tools/list" /\ sent[1][3].call = 2
  /\ sent[1][3].outcome = "result"
  /\ Len(sent[2]) = 1
  /\ InitializeRaised(sent[2][1])
  /\ ~mcp_client[2]._initialized
  /\ mcp_client[2].result = "raised"

\* C28: for every max_iterations value and every LLM behaviour, execute
\* terminates and the iterations it reports never exceed max_iterations.
\* Stated for the report: once execute has returned, the iterations of its
\* result are at most the agent's max_iterations.
C28_IterationsWithinLimit ==
  graph_node = "returned" => execution.iterations <= agent.max_iterations

\* The latest AI message of the state asks for a tool.
RequestsTool(state) ==
  LET ais == {i \in 1..Len(state.messages) : state.messages[i].type = "ai"}
      latest == CHOOSE i \in ais : \A j \in ais : j <= i
  IN /\ ais # {}
     /\ _extract_tool_use(state.messages[latest].content).tool_name # NULL

\* C29: router returns "tool_node" whenever the latest AI message of the
\* state requests a tool and the iteration limit has not been reached, and
\* END when the limit is reached or no tool is requested.  Stated for the
\* route taken: once the router has answered, the graph is at the tool node
\* exactly when the latest AI message requests a tool and the iteration
\* count is below max_iterations.
C29_RouterFollowsLatestAIMessage ==
  graph_node \in {"tool", END} =>
    ((graph_node = "tool")
       <=> (/\ RequestsTool(graph_state)
            /\ graph_state.iteration_count < graph_state.max_iterations))

\* The last n elements of a sequence.
LastN(seq, n) == SubSeq(seq, Len(seq) - n + 1, Len(seq))

\* C30: after any sequence of adds on an InMemoryMemory with limit
\* max_entries, the stored entries are never more than max_entries and are
\* exactly the most recently added ones, in the order they were added.
C30_KeepsMostRecent ==
  /\ Len(memory.entries) <= memory.max_entries
  /\ memory.entries =
       LastN(added, IF Len(added) < memory.max_entries
                      THEN Len(added) ELSE memory.max_entries)

\* Three entries added to a memory of two: the first one is gone, and the
\* last one is a tool result.
C30_Witness ==
  /\ memory.max_entries = 2
  /\ Len(added) = 3
  /\ memory.entries = <<added[2], added[3]>>
  /\ added[1].role = "user"
  /\ added[3].role = "tool"


\* ----------------------------------------------------------------- C31
\* C31: the store accepts at most one artifact per job id.  A put for a job
\* id that already has an artifact raises ValueError and leaves the store as
\* it was, and the ref every successful put has returned resolves through
\* get to the artifact of that put, whatever was put or asked for since.
C31_OneArtifactPerJob ==
  /\ \A i \in DOMAIN stored :
       (stored[i].op = "put" /\ HasJob(stored[i].before, stored[i].job_id)) =>
         /\ stored[i].kind = "raise"
         /\ stored[i].value.type = "ValueError"
         /\ stored[i].after = stored[i].before
  /\ \A i \in DOMAIN stored :
       (stored[i].op = "put" /\ stored[i].kind = "return") =>
         /\ get(artifact_store, stored[i].value).kind = "return"
         /\ get(artifact_store, stored[i].value).value = stored[i].artifact
  /\ \A j \in StoreJobs :
       Cardinality({i \in 1..Len(artifact_store) : artifact_store[i].job_id = j}) <= 1

\* A put, a refused second put of another artifact for the same job, and a
\* get of the first ref that returns the first artifact.
C31_Witness ==
  /\ Len(stored) = 3
  /\ stored[1].op = "put" /\ stored[1].kind = "return"
  /\ stored[2].op = "put" /\ stored[2].job_id = stored[1].job_id
  /\ stored[2].artifact # stored[1].artifact
  /\ stored[2].kind = "raise"
  /\ stored[3].op = "get" /\ stored[3].ref = stored[1].value
  /\ stored[3].kind = "return" /\ stored[3].value = stored[1].artifact


\* ----------------------------------------------------------------- C32
\* The guards call r has handed to eval while scanning the edges of node id.
EvalsAt(r, id) == SelectSeq(evals[r], LAMBDA v : v.from = id)

\* C32: when several guarded edges of the current node have a true guard,
\* the edge followed is the first of them in declaration order, and no guard
\* declared after it has been evaluated: the guards evaluated are those of
\* the guarded edges up to and including it, each once, in order.
C32_FirstTrueGuardShortCircuits ==
  \A r \in Runs :
    (AfterSelect(r) /\ Cardinality(TrueGuards(OutOf(r))) >= 2) =>
       LET first == Min(TrueGuards(OutOf(r)))
           seen == EvalsAt(r, current[r].id)
       IN /\ next_edge[r] = <<OutOf(r)[first]>>
          /\ \A k \in DOMAIN seen : seen[k].index <= first
          /\ {seen[k].index : k \in DOMAIN seen}
               = {i \in 1..first : OutOf(r)[i].condition # NULL}
          /\ \A k, l \in DOMAIN seen : k < l => seen[k].index < seen[l].index

\* The start node declares two edges to different nodes with the same guard,
\* true on the input: the first was followed and only its guard evaluated.
C32_Witness ==
  /\ AfterSelect(1) /\ current[1].id = "start"
  /\ Len(OutOf(1)) = 2 /\ TrueGuards(OutOf(1)) = {1, 2}
  /\ OutOf(1)[1].to # OutOf(1)[2].to
  /\ next_node[1].id = OutOf(1)[1].to
  /\ Len(EvalsAt(1, "start")) = 1

\* ----------------------------------------------------------------- C33
\* C33: when the current node has several unconditional edges and no guard
\* of its edges evaluates true, the edge followed is the unconditional edge
\* declared first, and the node entered next is that edge's target.
C33_FirstUnconditionalWins ==
  \A r \in Runs :
    (AfterSelect(r) /\ Cardinality(Unguarded(OutOf(r))) >= 2
       /\ TrueGuards(OutOf(r)) = {}) =>
       /\ next_edge[r] = <<OutOf(r)[Min(Unguarded(OutOf(r)))]>>
       /\ next_node[r].id = OutOf(r)[Min(Unguarded(OutOf(r)))].to

\* The start node declares two unconditional edges to different nodes, and
\* the first was followed.
C33_Witness ==
  /\ AfterSelect(1) /\ current[1].id = "start"
  /\ Len(OutOf(1)) = 2 /\ Unguarded(OutOf(1)) = {1, 2}
  /\ OutOf(1)[1].to # OutOf(1)[2].to
  /\ next_node[1].id = OutOf(1)[1].to


\* ----------------------------------------------------------------- C34
\* The call r has returned paused, with a checkpoint.
Checkpointed(r) ==
  pc[r] = "returned" /\ result[r].status = "paused" /\ result[r].pair

\* The keys of the nodes call r has entered.
Entered(r) == {node_key(path[r][i]) : i \in DOMAIN path[r]}

\* C34: every checkpoint a paused call returns names the stop node as its
\* current node, has that node in visited, and its visited is exactly the
\* nodes inherited from the checkpoint the call was resumed from together
\* with the nodes the call has entered; no node was entered twice in the
\* call, and none entered after the first was among the inherited ones.
C34_CheckpointIsTraversal ==
  \A r \in Runs :
    Checkpointed(r) =>
      /\ result[r].state.current_node_id = stop_at_node[r]
      /\ node_key(stop_at_node[r]) \in result[r].state.visited
      /\ result[r].state.visited = resume_state[r].visited \cup Entered(r)
      /\ ~HasRepeat(path[r])
      /\ \A i \in 2..Len(path[r]) : node_key(path[r][i]) \notin resume_state[r].visited

\* A call resumed from a checkpoint with two visited nodes entered one more
\* node and paused there: its checkpoint has three.
C34_Witness ==
  /\ Checkpointed(2)
  /\ Cardinality(resume_state[2].visited) = 2
  /\ Len(path[2]) = 2
  /\ Cardinality(result[2].state.visited) = 3
  /\ result[2].state.current_node_id = path[2][2]


\* ----------------------------------------------------------------- C35
\* The tool calls of the uninterrupted traversal from node on, every tool
\* returning: node, tool and resolved arguments of each, in order.
RECURSIVE TraverseCalls(_, _)
TraverseCalls(node, vis) ==
  IF node.type = "end" \/ AlreadyVisited(node, vis) THEN <<>>
  ELSE LET sel == SelectEdge(Outgoing(wf_def.edges, node.id), input_artifact)
           nxt == node_map(wf_def.nodes, sel[1].to)
       IN IF sel = <<>> THEN <<>>
          ELSE (IF nxt.type = "tool"
                  THEN <<[node_id |-> nxt.id, tool |-> nxt.tool,
                          args |-> resolve_args(nxt.args, Doc(input_artifact))]>>
                  ELSE <<>>)
               \o TraverseCalls(nxt, MarkVisited(node, vis))

\* What the tool client was asked by call r: node, tool and arguments.
Asked(r) ==
  [i \in DOMAIN CallsBy(r) |->
     [node_id |-> CallsBy(r)[i].node_id, tool |-> CallsBy(r)[i].tool,
      args |-> CallsBy(r)[i].args]]

\* The tool_results an uninterrupted run returns for the calls cs.
ResultsFor(cs) ==
  [i \in DOMAIN cs |-> [node_id |-> cs[i].node_id, result |-> cs[i].tool]]

\* Call q is a fresh call that has paused with a checkpoint and call r is a
\* finished call resumed from that checkpoint without a stop node.
PausedThenResumed(q, r) ==
  /\ q < r /\ Fresh(q) /\ Checkpointed(q)
  /\ pc[r] \in Terminal
  /\ resume_state[r] = result[q].state /\ stop_at_node[r] = NULL

WholeRoute == TraverseCalls(FirstStart(wf_def.nodes), {})

\* C35: pausing is transparent.  A fresh uninterrupted call whose tools all
\* return asks the tool client exactly the calls of the route; a call paused
\* at a node of the route and the call resumed from its checkpoint ask,
\* together, an initial part of the same calls in the same order, all of
\* them unless a tool call raised in the resumed call, and then the
\* tool_results of the two calls, one after the other, are the tool_results
\* of the uninterrupted run.
C35_PauseIsTransparent ==
  /\ \A r \in Runs :
       (Fresh(r) /\ pc[r] \in Terminal /\ stop_at_node[r] = NULL
          /\ raised[r] # "ToolError") =>
         /\ Asked(r) = WholeRoute
         /\ tool_results[r] = ResultsFor(WholeRoute)
  /\ \A q, r \in Runs :
       PausedThenResumed(q, r) =>
         /\ IsPrefix(Asked(q) \o Asked(r), WholeRoute)
         /\ raised[r] # "ToolError" =>
              /\ Asked(q) \o Asked(r) = WholeRoute
              /\ tool_results[q] \o tool_results[r] = ResultsFor(WholeRoute)
         /\ raised[r] = "ToolError" => ~CallsBy(r)[Len(CallsBy(r))].ok

\* Call 1 paused at the first tool node of start -> t1 -> t2 -> end after
\* its tool call, and call 2, resumed, called the second tool and completed.
C35_Witness ==
  /\ PausedThenResumed(1, 2)
  /\ Len(WholeRoute) = 2
  /\ Len(tool_results[1]) = 1 /\ Len(tool_results[2]) = 1
  /\ result[2].status = "completed"


\* ----------------------------------------------------------------- C36
\* The positions of path[r] at which the resumed call r arrived at a node the
\* checkpoint holds as visited: a node visited before the pause, or the
\* checkpoint node once more.
ArrivedAtVisited(r) ==
  {i \in 2..Len(path[r]) : node_key(path[r][i]) \in resume_state[r].visited}

\* C36: cycle detection spans the pause/resume boundary.  Once a call
\* resumed from a checkpoint has arrived at a node the checkpoint holds as
\* visited, it goes no further: that arrival is its last, the only step left
\* is the cycle error, and it never returns a status.
C36_CycleAcrossResume ==
  \A r \in Runs :
    (resume_state[r] # NoState /\ ArrivedAtVisited(r) # {}) =>
      /\ ArrivedAtVisited(r) = {Len(path[r])}
      /\ pc[r] \in {"loop", "raised"}
      /\ pc[r] = "raised" => raised[r] = "CycleDetected"
      /\ result[r].status = NULL
      /\ ENABLED CycleDetected(r) \/ pc[r] = "raised" \/ ~Turn(r)

\* Paused at t1 on start -> t1 -> t2 -> start; the resumed call went through
\* t2, came back to the start node and raised the cycle error.
C36_Witness ==
  /\ resume_state[2] # NoState
  /\ resume_state[2].current_node_id = "t1"
  /\ path[2] = <<"t1", "t2", "start">>
  /\ raised[2] = "CycleDetected"


\* ----------------------------------------------------------------- C37
\* The node the call r began at and the visited set it began with.
FirstNode(r) == node_map(wf_def.nodes, path[r][1])

FirstVisited(r) ==
  IF resume_state[r] = NoState THEN {} ELSE ResumeVisited(resume_state[r])

\* The positions of path[r] at which call r arrived at its stop node, the
\* node not being an end node.
StopArrivals(r) ==
  {i \in DOMAIN path[r] :
     /\ path[r][i] = stop_at_node[r]
     /\ node_map(wf_def.nodes, path[r][i]).type # "end"}

\* Call r has ended and has bound current to a node at least once.
Ended(r) == pc[r] \in Terminal /\ path[r] # <<>>

Paused(r) == pc[r] = "returned" /\ result[r].status = "paused"

\* At the pause the stop node is the last node of the call, none of its
\* edges has been looked at, and nothing was asked of the tool client after
\* the stop node's tool.
NothingPastStop(r) ==
  /\ path[r][Len(path[r])] = stop_at_node[r]
  /\ EvalsAt(r, stop_at_node[r]) = <<>>
  /\ next_edge[r] = <<>> \/ next_edge[r][1].to = stop_at_node[r]
  /\ \A i \in DOMAIN CallsBy(r) :
       CallsBy(r)[i].node_id = stop_at_node[r] => i = Len(CallsBy(r))

\* The stop node's tool has been called and has returned in call r.
StopToolDone(r) ==
  /\ \E i \in DOMAIN tool_results[r] : tool_results[r][i].node_id = stop_at_node[r]
  /\ EventsAt(stop_at_node[r], "STEP_STARTED") # {}
  /\ EventsAt(stop_at_node[r], "STEP_ENDED") # {}
  /\ CallsBy(r) # <<>>
  /\ CallsBy(r)[Len(CallsBy(r))].node_id = stop_at_node[r]
  /\ CallsBy(r)[Len(CallsBy(r))].ok

\* A call that has ended without pausing did what a call without a stop node
\* does from the same node: it asked the tool client for an initial part of
\* the same calls, all of them unless a tool call raised, and ended the same
\* way.
AsIfNoStop(r) ==
  /\ IsPrefix(Asked(r), TraverseCalls(FirstNode(r), FirstVisited(r)))
  /\ raised[r] # "ToolError" =>
       /\ Asked(r) = TraverseCalls(FirstNode(r), FirstVisited(r))
       /\ CASE Traverse(FirstNode(r), FirstVisited(r)) = "completed" ->
                 pc[r] = "returned" /\ result[r].status = "completed"
            [] Traverse(FirstNode(r), FirstVisited(r)) = "cycle" ->
                 pc[r] = "raised" /\ raised[r] = "CycleDetected"
            [] OTHER -> pc[r] = "raised" /\ raised[r] = "NoValidEdge"

\* C37 as claimed: a call returns paused exactly when its traversal arrives
\* at stop_at_node and that node is no end node; at the pause the stop
\* node's tool call has completed (a tool node's STEP_STARTED and STEP_ENDED
\* are in the trail and its result in the call's tool_results), none of its
\* edges has been evaluated and no later node invoked; a call that never
\* arrives at such a node behaves as if no stop had been requested.
C37_PausedExactlyAtStop ==
  \A r \in Runs :
    Ended(r) =>
      /\ Paused(r) <=> StopArrivals(r) # {}
      /\ Paused(r) =>
           /\ NothingPastStop(r)
           /\ stop_at_node[r] \in ToolIds => StopToolDone(r)
      /\ StopArrivals(r) = {} => AsIfNoStop(r)

\* The arrivals of call r at its stop node at which the node had not been
\* visited: it was not among the nodes the call began with, unless it is the
\* node the call began at, and not entered before in the call.
FirstStopArrivals(r) ==
  {i \in StopArrivals(r) :
     /\ i > 1 => node_key(path[r][i]) \notin FirstVisited(r)
     /\ \A j \in 1..(i - 1) : path[r][j] # path[r][i]}

\* C37 as amended: the pause happens at an arrival at the stop node only if
\* the node had not been visited, and the stop node's tool call has completed
\* in this call only if the call entered the node over an edge; a call
\* resumed at its stop node pauses at once, having asked nothing of the tool
\* client.  A call that does not pause behaves as if no stop had been
\* requested.
C37_PausedAtFirstArrival ==
  \A r \in Runs :
    Ended(r) =>
      /\ Paused(r) <=> FirstStopArrivals(r) # {}
      /\ Paused(r) =>
           /\ NothingPastStop(r)
           /\ FirstStopArrivals(r) = {Len(path[r])}
           /\ (stop_at_node[r] \in ToolIds /\ Len(path[r]) > 1) => StopToolDone(r)
           /\ Len(path[r]) = 1 => CallsBy(r) = <<>> /\ tool_results[r] = <<>>
      /\ ~Paused(r) => AsIfNoStop(r)

\* A fresh call paused at the tool node t2 behind t1: both tools were called,
\* t2 last, and no edge of t2 was looked at.
C37_Witness ==
  /\ Fresh(1) /\ Paused(1)
  /\ path[1] = <<"start", "t1", "t2">>
  /\ stop_at_node[1] = "t2"
  /\ Len(tool_results[1]) = 2
  /\ StopToolDone(1)

\* ---------------------------------------------------------------- C38
IsToolEvent(ev) == node_map(wf_def.nodes, ev.node_id).type = "tool"

Enders == {"STEP_ENDED", "STEP_ERRORED"}

\* The call is between the STEP_STARTED of a tool node and the event that
\* closes it.
InsideTool(r) == pc[r] \in {"tool_call", "tool_ended", "tool_errored"}

\* C38: in the events one call of run() has emitted, every STEP_STARTED of a
\* tool node is directly followed by one STEP_ENDED or STEP_ERRORED of the same
\* node (it is the last event only while the call is still inside that node's
\* tool call), every STEP_ENDED or STEP_ERRORED of a tool node is directly
\* preceded by the STEP_STARTED of that node, and a STEP_ERRORED is the last
\* event of a call that has raised.
C38_ToolEventsArePaired ==
  \A r \in Runs :
    LET trail == emitted[r]
    IN \A i \in DOMAIN trail :
         /\ (trail[i].event_type = "STEP_STARTED" /\ IsToolEvent(trail[i])) =>
               IF i = Len(trail) THEN InsideTool(r)
               ELSE /\ trail[i + 1].event_type \in Enders
                    /\ trail[i + 1].node_id = trail[i].node_id
         /\ (trail[i].event_type \in Enders /\ IsToolEvent(trail[i])) =>
               /\ i > 1
               /\ trail[i - 1].event_type = "STEP_STARTED"
               /\ trail[i - 1].node_id = trail[i].node_id
         /\ trail[i].event_type = "STEP_ERRORED" =>
               /\ i = Len(trail) /\ pc[r] = "raised"
               /\ IsToolEvent(trail[i])

\* A call went through t1, whose tool returned, and failed in the tool of t2:
\* its trail is STEP_STARTED(start), the closed pair of t1 and the pair of t2
\* that STEP_ERRORED closes.
C38_Witness ==
  /\ pc[1] = "raised" /\ raised[1] = "ToolError"
  /\ Len(emitted[1]) = 5
  /\ emitted[1][2] = AuditEvent("STEP_STARTED", job_id[1], "t1")
  /\ emitted[1][3] = AuditEvent("STEP_ENDED", job_id[1], "t1")
  /\ emitted[1][4] = AuditEvent("STEP_STARTED", job_id[1], "t2")
  /\ emitted[1][5] = AuditEvent("STEP_ERRORED", job_id[1], "t2")

\* ---------------------------------------------------------------- C39
\* The server had answered no initialize request with a result when it took
\* the request h records.
BeforeInitialization(h) == ~h.before[1]

\* C39: a tools/call request is answered without regard to initialization.
\* The answer to a request taken before any successful initialize is the
\* answer the same request gets once the server is initialized; it is never
\* the INVALID_REQUEST error tools/list is refused with; a call of a tool of
\* the registry whose handler returns is answered with the tool's result; and
\* the request leaves _initialized as it was.
C39_ToolsCallNotGated ==
  \A i \in 1..Len(handled) :
    IsCall(handled[i], Method_tools_call) =>
      /\ handled[i].kind = "return"
      /\ handled[i].after = handled[i].before
      /\ \A j \in 1..Len(handled) :
            handled[j].request = handled[i].request =>
              handled[j].response = handled[i].response
      /\ "error" \in DOMAIN handled[i].response =>
            handled[i].response.error.code # INVALID_REQUEST
      /\ handled[i].request = ToolsCallRequest(Name_echo) =>
            /\ "result" \in DOMAIN handled[i].response
            /\ handled[i].response.result.content =
                  <<[type |-> "text", text |-> HandlerResult("str")]>>

\* The tool echo is called before initialization and again after an accepted
\* initialize; tools/list in between the first two is refused.
C39_Witness ==
  /\ Len(handled) = 4
  /\ handled[1].request = ToolsCallRequest(Name_echo)
  /\ BeforeInitialization(handled[1])
  /\ "result" \in DOMAIN handled[1].response
  /\ handled[2].request = ToolsListRequest
  /\ handled[2].response.error.code = INVALID_REQUEST
  /\ handled[3].request = InitializeRequest
  /\ "result" \in DOMAIN handled[3].response
  /\ handled[4].request = ToolsCallRequest(Name_echo)
  /\ ~BeforeInitialization(handled[4])
  /\ handled[4].response = handled[1].response

====
